---- MODULE Spec2Model ----
(***************************************************************************)
(* Quote resolution of the portfolio tracker's server:                     *)
(*   GET /api/finnhub/quote/:symbol  ->  offlineDataService.isOnline       *)
(*     -> MultiProviderService.getQuote (cache, Finnhub, Alpha Vantage,    *)
(*        Yahoo Finance, zero-price placeholder)                           *)
(* Several requests are in flight at once; each one is suspended at every  *)
(* await of the handler (the prober, one fetch per adapter attempt).       *)
(* Strings the code inspects (symbols) are sequences of one-character      *)
(* strings, so that toUpperCase / endsWith / split are computed.           *)
(*                                                                         *)
(* Further specifications over their own variables:                        *)
(*   RefreshSpec  the client's price refresh loops (RealTimePriceService   *)
(*                driven by the dashboard effect, and PriceService)        *)
(*   LimiterSpec  ServerFinnhubService.makeRequest: request spacing and    *)
(*                the retry after HTTP 429, with concurrent calls          *)
(*   SearchSpec   GET /api/finnhub/search                                  *)
(***************************************************************************)
EXTENDS Integers, Sequences, FiniteSets, TLC

\* ------------------------------------------------------------------ bounds
\* number of times the clock is advanced in one behaviour
MaxTicks == 2

\* number of requests received in one behaviour
MaxRequests == 2

\* request slots served concurrently by the event loop
Requests == {1, 2}

\* --------------------------------------------------------- string helpers
LowerLetters == << "a","b","c","d","e","f","g","h","i","j","k","l","m",
                   "n","o","p","q","r","s","t","u","v","w","x","y","z" >>
UpperLetters == << "A","B","C","D","E","F","G","H","I","J","K","L","M",
                   "N","O","P","Q","R","S","T","U","V","W","X","Y","Z" >>

UpperChar(c) ==
  IF \E i \in 1..Len(LowerLetters) : LowerLetters[i] = c
  THEN UpperLetters[CHOOSE i \in 1..Len(LowerLetters) : LowerLetters[i] = c]
  ELSE c

\* String.prototype.toUpperCase
ToUpperCase(s) == [i \in 1..Len(s) |-> UpperChar(s[i])]

\* String.prototype.endsWith
EndsWith(s, suf) ==
  /\ Len(suf) <= Len(s)
  /\ SubSeq(s, Len(s) - Len(suf) + 1, Len(s)) = suf

\* position of the first occurrence of sub in s, 0 when there is none
IndexOf(s, sub) ==
  LET hits == { i \in 1..(Len(s) - Len(sub) + 1) : SubSeq(s, i, i + Len(sub) - 1) = sub }
  IN IF hits = {} THEN 0 ELSE CHOOSE i \in hits : \A j \in hits : i <= j

\* String.prototype.includes
Includes(s, sub) == IndexOf(s, sub) # 0

\* s.split('.')[0]
SplitDotFirst(s) ==
  LET i == IndexOf(s, << "." >>)
  IN IF i = 0 THEN s ELSE SubSeq(s, 1, i - 1)

\* s.replace(pat, rep) with a string pattern: the first occurrence only
ReplaceFirst(s, pat, rep) ==
  LET i == IndexOf(s, pat)
  IN IF i = 0 THEN s
     ELSE SubSeq(s, 1, i - 1) \o rep \o SubSeq(s, i + Len(pat), Len(s))

\* ---------------------------------------------------------------- symbols
AAPL    == << "A","A","P","L" >>
aapl    == << "a","a","p","l" >>
zzL     == << "z","z",".","l" >>
EmptySymbol == << >>

\* symbols a client may put in the :symbol path parameter: one in two
\* spellings that the offline table knows, one with an exchange suffix
\* that it does not know, and the empty parameter.  One behaviour draws
\* its requests from one family.
SymbolFamilies == { { AAPL, aapl, EmptySymbol }, { zzL, EmptySymbol } }

Symbols == UNION SymbolFamilies

\* every string a Map key can be
Keys == Symbols \cup { ToUpperCase(s) : s \in Symbols }

\* ------------------------------------------------------------- JS numbers
Num(v)    == [t |-> "num", v |-> v]
NaN       == [t |-> "nan", v |-> 0]
Undefined == [t |-> "undef", v |-> 0]

\* x > 0 : false for NaN and undefined
GT0(x) == x.t = "num" /\ x.v > 0
\* x <= 0 : false for NaN and undefined
LE0(x) == x.t = "num" /\ x.v <= 0
\* !x
Falsy(x) == x.t # "num" \/ x.v = 0

\* the price strings an upstream "05. price" field is sampled from
PriceStrings == { "", "abc", "0.0000", "100" }

\* parseFloat on the sampled strings
ParseFloat(str) ==
  CASE str = "0.0000" -> Num(0)
    [] str = "100"    -> Num(100)
    [] str = "101"    -> Num(101)
    [] OTHER          -> NaN

\* ----------------------------------------------------------------- quotes
Null    == [null |-> TRUE]
NoEntry == [none |-> TRUE]

FinnhubTag == "Finnhub"
AlphaTag   == "Alpha Vantage"
YahooTag   == "Yahoo Finance"
FallbackTag == "Fallback"
OfflineTag == "Offline Data"

\* QuoteData; error = "" and provider = "" stand for an absent field,
\* origin records which component built the record
Quote(symbol, price, provider, error, origin) ==
  [symbol |-> ToUpperCase(symbol), price |-> price, provider |-> provider,
   error |-> error, origin |-> origin]

\* 5 * 60 * 1000 ms
cacheTimeout == 5 * 60 * 1000

\* ------------------------------------------------- Offline Quote Source
\* offlineData.ts: fixed table of uppercased symbol -> baseline price
OfflineSymbols == { AAPL }

OfflineBase(key) == 100

\* percentages the cosmetic perturbation is sampled from (within +-2%)
OfflineNoise == { -2, 2 }

\* offlineDataService.getQuoteOffline: the perturbed baseline, or null
getQuoteOffline(symbol, noise) ==
  LET key == ToUpperCase(symbol)
  IN IF key \in OfflineSymbols
     THEN Quote(symbol, Num(OfflineBase(key) + (OfflineBase(key) * noise) \div 100),
                "Offline", "", "offline")
     ELSE Null

\* ------------------------------------------------------------ quote cache
\* getCachedQuote that never finds an entry
getCachedQuote_NeverHit(c, symbol, t) == Null

\* getCachedQuote that still serves an entry whose age equals the TTL
getCachedQuote_InclusiveTTL(c, symbol, t) ==
  LET cached == c[ToUpperCase(symbol)]
  IN IF cached # NoEntry /\ t - cached.timestamp <= cacheTimeout
     THEN cached.data
     ELSE Null

\* getCachedQuote that looks the symbol up as it was spelled
getCachedQuote_CaseSensitive(c, symbol, t) ==
  LET cached == c[symbol]
  IN IF cached # NoEntry /\ t - cached.timestamp < cacheTimeout
     THEN cached.data
     ELSE Null

\* MultiProviderService.getCachedQuote
getCachedQuote(c, symbol, t) ==
  LET cached == c[ToUpperCase(symbol)]
  IN IF cached # NoEntry /\ t - cached.timestamp < cacheTimeout
     THEN cached.data
     ELSE Null

\* setCachedQuote that stores nothing
setCachedQuote_Dropped(c, symbol, data, t) == c

\* MultiProviderService.setCachedQuote
setCachedQuote(c, symbol, data, t) ==
  [c EXCEPT ![ToUpperCase(symbol)] = [data |-> data, timestamp |-> t]]

\* MultiProviderService.getBasicEuropeanFallback
getBasicEuropeanFallback(symbol) ==
  Quote(symbol, Num(0), FallbackTag,
        "Prezzo in tempo reale non disponibile. Puoi aggiungere il prezzo manualmente.",
        "fallback")

\* ------------------------------------------------------- Finnhub adapter
\* ServerFinnhubService.getSymbolVariants
getSymbolVariants(symbol) ==
  LET upperSymbol == ToUpperCase(symbol)
      v1 == << upperSymbol >>
      v2 == IF Includes(upperSymbol, << "." >>)
            THEN Append(v1, SplitDotFirst(upperSymbol))
            ELSE v1
      baseSymbol == ReplaceFirst(upperSymbol, << ".", "L" >>, << >>)
  IN IF EndsWith(upperSymbol, << ".", "L" >>)
     THEN v2 \o << baseSymbol \o << ".", "L", "O", "N" >>,
                  baseSymbol \o << ":", "L", "N" >> >>
     ELSE v2

\* what one makeRequest('/quote') of one variant can come back with:
\* a rejection (no API key, network error, non-OK status) or a JSON body
\* whose field c is missing, zero, non-numeric or a price
FinnhubOutcomes ==
  { [kind |-> "throw", c |-> Undefined] } \cup
  { [kind |-> "json", c |-> c] : c \in { Undefined, Num(0), NaN, Num(100), Num(101) } }

\* the test of finnhub.ts:453 on one variant's response
FinnhubAccepts(out) ==
  out.kind = "json" /\ out.c # Undefined /\ out.c # Num(0)

\* the quote built at finnhub.ts:454-467
FinnhubQuote(symbol, out) == Quote(symbol, out.c, "", "", "finnhub")

\* the zero quote returned when every variant failed (finnhub.ts:478-492)
FinnhubZeroQuote(symbol) ==
  Quote(symbol, Num(0), "",
        "Price data temporarily unavailable - this may be due to API limitations on European markets",
        "finnhub")

\* ------------------------------------------------- Alpha Vantage adapter
\* fetch/json rejects, or a body with or without "Global Quote"."05. price"
AlphaOutcomes ==
  { [kind |-> "throw", hasQuote |-> FALSE, price |-> ""] } \cup
  { [kind |-> "json", hasQuote |-> FALSE, price |-> ""] } \cup
  { [kind |-> "json", hasQuote |-> TRUE, price |-> p] : p \in PriceStrings }

\* MultiProviderService.getAlphaVantageQuote, given the upstream outcome
getAlphaVantageQuote(symbol, out) ==
  IF out.kind = "json" /\ out.hasQuote /\ out.price # ""
  THEN Quote(symbol, ParseFloat(out.price), "", "", "alpha")
  ELSE Null

\* ------------------------------------------------- Yahoo Finance adapter
YahooValues == { Undefined, Num(0), Num(100) }

\* fetch/json rejects, or a chart body with or without result[0].meta
YahooOutcomes ==
  { [kind |-> "throw", hasMeta |-> FALSE, regularMarketPrice |-> Undefined,
     previousClose |-> Undefined] } \cup
  { [kind |-> "json", hasMeta |-> FALSE, regularMarketPrice |-> Undefined,
     previousClose |-> Undefined] } \cup
  { [kind |-> "json", hasMeta |-> TRUE, regularMarketPrice |-> rp,
     previousClose |-> pcl] : rp \in YahooValues, pcl \in YahooValues }

\* MultiProviderService.getYahooFinanceQuote, given the upstream outcome
getYahooFinanceQuote(symbol, out) ==
  IF out.kind = "json" /\ out.hasMeta
  THEN LET currentPrice == IF Falsy(out.regularMarketPrice)
                           THEN out.previousClose
                           ELSE out.regularMarketPrice
       IN Quote(symbol, currentPrice, "", "", "yahoo")
  ELSE Null

\* ------------------------------------------ MultiProviderService.getQuote
\* the adapters in the order of the try blocks of getQuote
FirstAdapter == "finnhub"

\* an order in which a failing Alpha Vantage ends the resolution
NextAdapter_SkipsYahoo(adapter) ==
  CASE adapter = "finnhub" -> "alpha"
    [] OTHER               -> "fallback"

NextAdapter(adapter) ==
  CASE adapter = "finnhub" -> "alpha"
    [] adapter = "alpha"   -> "yahoo"
    [] OTHER               -> "fallback"

\* a test under which a Finnhub quote never ends the resolution
Accepts_FinnhubIgnored(adapter, q) == adapter # "finnhub" /\ q # Null

\* the test that lets an adapter's result end the resolution
Accepts(adapter, q) ==
  IF adapter = "finnhub"
  THEN q # Null /\ GT0(q.price)
  ELSE q # Null

\* tagging that labels every fallback adapter's quote as Alpha Vantage
ProviderTag_Mixed(adapter) ==
  CASE adapter = "finnhub" -> FinnhubTag
    [] OTHER               -> AlphaTag

\* the provider tag put on an accepted result
ProviderTag(adapter) ==
  CASE adapter = "finnhub" -> FinnhubTag
    [] adapter = "alpha"   -> AlphaTag
    [] OTHER               -> YahooTag

\* --------------------------------------- GET /api/finnhub/quote/:symbol
NoBody == Null

\* status and body are what res.status().json() sends; how records the
\* branch that produced it: badreq, offline, cache, adapter, fallback
Response(status, body, how) == [status |-> status, body |-> body, how |-> how]

\* a route that lets the empty parameter through
BadRequest_Never(symbol) == FALSE

\* if (!symbol) return res.status(400)
BadRequest(symbol) == symbol = EmptySymbol

\* a route that never takes the offline branch
UseOfflineBranch_Never(isOnline) == FALSE

\* if (!isOnline): the offline branch is taken
UseOfflineBranch(isOnline) == ~isOnline

\* an offline branch that sends the offline quote under the Finnhub tag
OfflineResponses_LiveTag(symbol) ==
  { IF getQuoteOffline(symbol, noise) = Null
    THEN Response(404, NoBody, "offline")
    ELSE Response(200, [getQuoteOffline(symbol, noise) EXCEPT !.provider = FinnhubTag],
                  "offline")
    : noise \in OfflineNoise }

\* the offline branch: the offline quote retagged, or 404
OfflineResponses(symbol) ==
  { IF getQuoteOffline(symbol, noise) = Null
    THEN Response(404, NoBody, "offline")
    ELSE Response(200, [getQuoteOffline(symbol, noise) EXCEPT !.provider = OfflineTag],
                  "offline")
    : noise \in OfflineNoise }

\* the online branch once getQuote has resolved to quote
OnlineResponses(symbol, quote, how) ==
  IF quote = Null
  THEN { IF getQuoteOffline(symbol, noise) = Null
         THEN Response(404, NoBody, "offline")
         ELSE Response(200, [getQuoteOffline(symbol, noise) EXCEPT !.provider = OfflineTag],
                       "offline")
         : noise \in OfflineNoise }
  ELSE { Response(200, quote, how) }

\* ------------------------------------------------------------------ state
VARIABLES
  requested, \* the symbols the clients of this behaviour ask for
  started,   \* requests received so far
  now,       \* Date.now()
  ticks,     \* how often the clock was advanced
  cache,     \* MultiProviderService.cache : key -> {data, timestamp}
  pc,        \* where each request is suspended
  sym,       \* req.params.symbol of each request
  vi,        \* index of the Finnhub variant being requested
  calls,     \* adapters invoked by the request so far, in order
  rets,      \* what the adapters invoked so far returned to getQuote
  found,     \* what getQuote found in the cache: "none", "fresh", "expired"
  online,    \* what isOnline() answered the request: "?", "yes", "no"
  probes,    \* how often the request has called isOnline()
  sent       \* the latest response sent, with the request it answers

\* the state of the quote route and of MultiProviderService
quoteVars == << requested, started, now, ticks, cache, pc, sym, vi, calls, rets, found, online,
               probes, sent >>

\* RealTimePriceService (client), the dashboard effect that drives it, the
\* timers of the browser, and the static PriceService
VARIABLES
  updateCallbacks,  \* RealTimePriceService.updateCallbacks
  updateInterval,   \* RealTimePriceService.updateInterval: a timer id, 0 for null
  isRunning,        \* RealTimePriceService.isRunning
  timers,           \* ids of the setTimeout timers that are pending
  created,          \* number of setTimeout timers created so far
  inFlight,         \* fetchAndBroadcastUpdates calls awaiting getMultipleQuotes
  mounted,          \* handlePriceUpdates of the mounted dashboard effect, 0 for none
  mounts,           \* number of times the dashboard effect ran
  starting,         \* callbacks whose startPriceUpdates awaits isConfigured()
  psUpdateInterval, \* PriceService.updateInterval is not null
  psInFlight,       \* PriceService interval callbacks awaiting Promise.all
  psFired           \* number of times the PriceService interval fired

refreshVars == << updateCallbacks, updateInterval, isRunning, timers, created, inFlight,
                  mounted, mounts, starting, psUpdateInterval, psInFlight, psFired >>

\* ServerFinnhubService.makeRequest: the adapter instance, the clock, and
\* the makeRequest calls in progress
VARIABLES
  apiKey,          \* ServerFinnhubService.apiKey is not empty
  clock,           \* Date.now() as makeRequest sees it
  advances,        \* how often the clock was advanced
  lastRequestTime, \* ServerFinnhubService.lastRequestTime
  mpc,             \* where each makeRequest call is suspended, or how it ended
  due,             \* when the setTimeout a call awaits is due
  sentAt,          \* the times at which each call issued a fetch
  seen             \* the HTTP statuses each call received, in order

limiterVars == << apiKey, clock, advances, lastRequestTime, mpc, due, sentAt, seen >>

\* GET /api/finnhub/search: the request being served and the latest response
VARIABLES
  searchPc,     \* where the search request is suspended: idle, probe, finnhub
  searchQuery,  \* req.query.q of the search request
  searched,     \* search requests received so far
  searchSent    \* the latest search response, with the request it answers

searchVars == << searchPc, searchQuery, searched, searchSent >>

\* MemStorage (server) and LocalStorageService (browser): the two portfolio
\* stores, and the operations performed on them so far
VARIABLES
  investments,    \* MemStorage.investments : key -> Investment
  transactions,   \* MemStorage.transactions : key -> Transaction
  uuids,          \* number of randomUUID() calls so far
  lsInvestments,  \* localStorage 'investment-tracker-investments', an array
  lsTransactions, \* localStorage 'investment-tracker-transactions', an array
  lsNow,          \* Date.now() in the browser
  storeOps,       \* number of store operations performed so far
  storeLast       \* the latest store operation and how it was answered

storeVars == << investments, transactions, uuids, lsInvestments, lsTransactions, lsNow,
                storeOps, storeLast >>

\* the browser session: App, Login and Dashboard
VARIABLES
  currentUser,        \* App.currentUser, NoUser for null
  showPasswordModal,  \* Login.showPasswordModal
  password,           \* Login.password
  passwordError,      \* Login.passwordError
  showInvestmentForm, \* Dashboard.showInvestmentForm
  editingInvestment,  \* Dashboard.editingInvestment is not null
  editingPriceId,     \* Dashboard.editingPriceId is not null
  sellDialog,         \* Dashboard.sellDialog.open, with an investment
  effectRan,          \* the price-update effect of the mounted Dashboard ran
  log                 \* the store mutations and loop starts issued so far

sessionVars == << currentUser, showPasswordModal, password, passwordError,
                  showInvestmentForm, editingInvestment, editingPriceId, sellDialog,
                  effectRan, log >>

\* one resolution of MultiProviderService.getQuote under a configuration of
\* the credentials, with the network requests it issues
VARIABLES
  alphaKey,  \* process.env.ALPHA_VANTAGE_API_KEY is set
  kpc,       \* the adapter the resolution is suspended in: idle, finnhub, alpha, yahoo, done
  ksym,      \* the symbol being resolved
  kvi,       \* index of the Finnhub variant being requested
  kfetches,  \* the network requests issued so far: adapter and credential sent
  krets      \* what the adapters called so far returned to getQuote

keyVars == << alphaKey, kpc, ksym, kvi, kfetches, krets >>

\* the suffix tables applied to one symbol
VARIABLES
  sfxSymbol,    \* the symbol the tables are applied to
  sfxFinnhub,   \* what the tables of ServerFinnhubService answered, or Null
  sfxResolver   \* what the tables of MultiProviderService answered, or Null

suffixVars == << sfxSymbol, sfxFinnhub, sfxResolver >>

\* the symbol classifiers applied to one search result
VARIABLES
  clsSymbol,       \* the symbol of the search result
  clsDescription,  \* its description
  clsExchange,     \* its exchangeShortName
  clsServer,       \* what categorizeSymbol answered, "" before the call
  clsClient        \* what determineSecurityType answered, "" before the call

classifierVars == << clsSymbol, clsDescription, clsExchange, clsServer, clsClient >>

\* one call of ServerFinnhubService.getQuote
VARIABLES
  vpc,      \* idle, trying (a makeRequest is awaited), done
  vsym,     \* the symbol getQuote was called with
  vtried,   \* the variants requested so far, in order
  vouts,    \* what the requests settled so far came back with
  vresult   \* what getQuote returned, Null before it returns

variantVars == << vpc, vsym, vtried, vouts, vresult >>

\* one call of the merging searchSymbol of ServerFinnhubService
VARIABLES
  msPc,      \* idle, pending (Promise.allSettled is awaited), done
  msQuery,   \* the query searchSymbol was called with
  msStock,   \* how makeRequest('/search') settled, Null while pending
  msCrypto,  \* how makeRequest('/crypto/symbol') settled, Null while pending
  msResult   \* the array searchSymbol returned

mergeVars == << msPc, msQuery, msStock, msCrypto, msResult >>

\* one batch: FinnhubService.getMultipleQuotes or PriceService.batchUpdatePrices
VARIABLES
  btFn,       \* which of the two functions was called, "none" before a call
  btSymbols,  \* the symbols argument
  btOuts,     \* per position, how that symbol's own request settled; Null: pending
  btPc,       \* idle, pending (Promise.all is awaited), done
  btQuotes,   \* per position, what the symbol's own getQuote resolved to
  btResult,   \* the array getMultipleQuotes returned
  btPrices    \* the Map of batchUpdatePrices

batchVars == << btFn, btSymbols, btOuts, btPc, btQuotes, btResult, btPrices >>

vars == << quoteVars, refreshVars, limiterVars, searchVars, storeVars, sessionVars, keyVars, suffixVars, classifierVars, variantVars, mergeVars, batchVars >>

\* the variables the quote route leaves alone
otherThanQuote == << refreshVars, limiterVars, searchVars, storeVars, sessionVars, keyVars, suffixVars, classifierVars, variantVars, mergeVars, batchVars >>

\* the variables the refresh loop leaves alone
otherThanRefresh == << quoteVars, limiterVars, searchVars, storeVars, sessionVars, keyVars, suffixVars, classifierVars, variantVars, mergeVars, batchVars >>

\* the variables makeRequest leaves alone
otherThanLimiter == << quoteVars, refreshVars, searchVars, storeVars, sessionVars, keyVars, suffixVars, classifierVars, variantVars, mergeVars, batchVars >>

\* the variables the search route leaves alone
otherThanSearch == << quoteVars, refreshVars, limiterVars, storeVars, sessionVars, keyVars, suffixVars, classifierVars, variantVars, mergeVars, batchVars >>

\* the variables the portfolio stores leave alone
otherThanStore == << quoteVars, refreshVars, limiterVars, searchVars, sessionVars, keyVars, suffixVars, classifierVars, variantVars, mergeVars, batchVars >>

\* the variables the browser session leaves alone
otherThanSession == << quoteVars, refreshVars, limiterVars, searchVars, storeVars, keyVars, suffixVars, classifierVars, variantVars, mergeVars, batchVars >>

\* the variables the resolution under a credential configuration leaves alone
otherThanKey == << quoteVars, refreshVars, limiterVars, searchVars, storeVars, sessionVars, suffixVars, classifierVars, variantVars, mergeVars, batchVars >>

\* the variables the suffix tables leave alone
otherThanSuffix == << quoteVars, refreshVars, limiterVars, searchVars, storeVars, sessionVars,
                      keyVars, classifierVars, variantVars, mergeVars, batchVars >>

\* the variables the classifiers leave alone
otherThanClassifier == << quoteVars, refreshVars, limiterVars, searchVars, storeVars,
                          sessionVars, keyVars, suffixVars, variantVars, mergeVars, batchVars >>

\* the variables ServerFinnhubService.getQuote leaves alone
otherThanVariant == << quoteVars, refreshVars, limiterVars, searchVars, storeVars,
                       sessionVars, keyVars, suffixVars, classifierVars, mergeVars, batchVars >>

\* the variables the merging searchSymbol leaves alone
otherThanMerge == << quoteVars, refreshVars, limiterVars, searchVars, storeVars, sessionVars,
                     keyVars, suffixVars, classifierVars, variantVars, batchVars >>

\* the variables a batch leaves alone
otherThanBatch == << quoteVars, refreshVars, limiterVars, searchVars, storeVars, sessionVars,
                     keyVars, suffixVars, classifierVars, variantVars, mergeVars >>

\* the record of a search response: the query, the prober's answer, whether
\* searchSymbol was called and what it returned, and status and body sent
SearchSent(query, isOnline, called, returned, status, body) ==
  [query |-> query, online |-> isOnline, called |-> called, returned |-> returned,
   status |-> status, body |-> body]

NoSearchSent == SearchSent(<< >>, "?", FALSE, << >>, 0, << >>)

\* no search request received yet
SearchIdle ==
  /\ searchPc = "idle"
  /\ searchQuery = << >>
  /\ searched = 0
  /\ searchSent = NoSearchSent

\* makeRequest calls that may be in progress at once
LimiterCalls == { 1, 2, 3 }

\* Date.now() when the first call is made
StartTime == 1000

AdapterOrder == << "finnhub", "alpha", "yahoo" >>

\* the record of a response: the request (symbol, prober's answer, number
\* of prober calls, cache finding, adapters invoked and their results), the
\* response, the time it was sent, and symbol and branch of the response
\* sent before it
Sent(symbol, isOnline, probed, finding, invoked, returned, response, t, before) ==
  [sym |-> symbol, online |-> isOnline, probes |-> probed, found |-> finding,
   calls |-> invoked, rets |-> returned,
   status |-> response.status, body |-> response.body, how |-> response.how,
   at |-> t, prevSym |-> before.sym, prevHow |-> before.how]

NothingSent ==
  [sym |-> EmptySymbol, online |-> "?", probes |-> 0, found |-> "none", calls |-> << >>,
   rets |-> << >>, status |-> 0, body |-> NoBody, how |-> "none", at |-> 0,
   prevSym |-> EmptySymbol, prevHow |-> "none"]

\* no request received yet, the cache empty
QuoteIdle ==
  /\ started = 0
  /\ now = 0
  /\ ticks = 0
  /\ cache = [k \in Keys |-> NoEntry]
  /\ pc = [r \in Requests |-> "idle"]
  /\ sym = [r \in Requests |-> EmptySymbol]
  /\ vi = [r \in Requests |-> 0]
  /\ calls = [r \in Requests |-> << >>]
  /\ rets = [r \in Requests |-> << >>]
  /\ found = [r \in Requests |-> "none"]
  /\ online = [r \in Requests |-> "?"]
  /\ probes = [r \in Requests |-> 0]
  /\ sent = NothingSent

\* RealTimePriceService and PriceService as constructed, nothing mounted
RefreshIdle ==
  /\ updateCallbacks = {}
  /\ updateInterval = 0
  /\ isRunning = FALSE
  /\ timers = {}
  /\ created = 0
  /\ inFlight = 0
  /\ mounted = 0
  /\ mounts = 0
  /\ starting = {}
  /\ psUpdateInterval = FALSE
  /\ psInFlight = 0
  /\ psFired = 0

\* ServerFinnhubService as constructed, no makeRequest call made yet
LimiterIdle ==
  /\ clock = StartTime
  /\ advances = 0
  /\ lastRequestTime = 0
  /\ mpc = [m \in LimiterCalls |-> "idle"]
  /\ due = [m \in LimiterCalls |-> 0]
  /\ sentAt = [m \in LimiterCalls |-> << >>]
  /\ seen = [m \in LimiterCalls |-> << >>]

\* an Investment record; quantities are counted in halves of a unit and
\* prices in tenths of a currency unit, so that the sample data are integers
Investment(id, symbol, quantity, avgPrice, currentPrice) ==
  [id |-> id, symbol |-> symbol, quantity |-> quantity, avgPrice |-> avgPrice,
   currentPrice |-> currentPrice]

\* a Transaction record whose total is the unit price
Trade_TotalIsPrice(id, type, symbol, quantity, price, user) ==
  [id |-> id, type |-> type, assetSymbol |-> symbol, quantity |-> quantity, price |-> price,
   total |-> price, user |-> user]

\* a Transaction record of type buy or sell; total is quantity * price
Trade(id, type, symbol, quantity, price, user) ==
  [id |-> id, type |-> type, assetSymbol |-> symbol, quantity |-> quantity, price |-> price,
   total |-> quantity * price, user |-> user]

\* a price_update record that does not carry the new price
PriceUpdate_Unpriced(id, symbol, price, user) ==
  [id |-> id, type |-> "price_update", assetSymbol |-> symbol, price |-> 0, user |-> user]

\* a Transaction record of type price_update: no quantity, no total
PriceUpdate(id, symbol, price, user) ==
  [id |-> id, type |-> "price_update", assetSymbol |-> symbol, price |-> price, user |-> user]

\* MemStorage.initializeSampleData: the investments "1", "2", "3"
sampleInvestments ==
  (1 :> Investment(1, "AAPL", 50, 1755, 1823)) @@
  (2 :> Investment(2, "TSLA", 30, 2500, 2455)) @@
  (3 :> Investment(3, "BTC", 1, 350000, 425000))

\* MemStorage.initializeSampleData: the transactions "1", "2", "3"
sampleTransactions ==
  (1 :> Trade(1, "buy", "AAPL", 50, 1755, "Alle")) @@
  (2 :> PriceUpdate(2, "TSLA", 2455, "Alle")) @@
  (3 :> Trade(3, "buy", "BTC", 1, 350000, "Alle"))

\* the operation record before any operation
NoStoreOp == [op |-> "none", status |-> 0]

\* MemStorage as constructed, the localStorage of the browser empty
StoreIdle ==
  /\ investments = sampleInvestments
  /\ transactions = sampleTransactions
  /\ uuids = 0
  /\ lsInvestments = << >>
  /\ lsTransactions = << >>
  /\ lsNow = StartTime
  /\ storeOps = 0
  /\ storeLast = NoStoreOp

\* App.currentUser is null
NoUser == [name |-> "", role |-> "", isAdmin |-> FALSE]

\* Login as mounted
LoginMounted ==
  /\ showPasswordModal = FALSE
  /\ password = ""
  /\ passwordError = FALSE

\* Dashboard as mounted
DashboardMounted ==
  /\ showInvestmentForm = FALSE
  /\ editingInvestment = FALSE
  /\ editingPriceId = FALSE
  /\ sellDialog = FALSE
  /\ effectRan = FALSE

\* App as mounted: nobody logged in, nothing issued
SessionIdle ==
  /\ currentUser = NoUser
  /\ LoginMounted
  /\ DashboardMounted
  /\ log = << >>

\* no resolution started under the credential configuration
KeyQuiet ==
  /\ kpc = "idle"
  /\ ksym = EmptySymbol
  /\ kvi = 0
  /\ kfetches = << >>
  /\ krets = << >>

\* both credentials configured, no resolution started
KeyIdle == alphaKey = TRUE /\ KeyQuiet

\* the suffix tables not applied
SuffixIdle ==
  /\ sfxSymbol = EmptySymbol
  /\ sfxFinnhub = Null
  /\ sfxResolver = Null

\* the classifiers not applied
ClassifierIdle ==
  /\ clsSymbol = EmptySymbol
  /\ clsDescription = << >>
  /\ clsExchange = << >>
  /\ clsServer = ""
  /\ clsClient = ""

\* ServerFinnhubService.getQuote not called
VariantIdle ==
  /\ vpc = "idle"
  /\ vsym = EmptySymbol
  /\ vtried = << >>
  /\ vouts = << >>
  /\ vresult = Null

\* the merging searchSymbol not called
MergeIdle ==
  /\ msPc = "idle"
  /\ msQuery = << >>
  /\ msStock = Null
  /\ msCrypto = Null
  /\ msResult = << >>

\* no batch was called
BatchIdle ==
  /\ btFn = "none"
  /\ btSymbols = << >>
  /\ btOuts = << >>
  /\ btPc = "idle"
  /\ btQuotes = << >>
  /\ btResult = << >>
  /\ btPrices = << >>

Init ==
  /\ requested \in SymbolFamilies
  /\ QuoteIdle
  /\ RefreshIdle
  /\ apiKey = TRUE
  /\ LimiterIdle
  /\ SearchIdle
  /\ StoreIdle
  /\ SessionIdle
  /\ KeyIdle
  /\ SuffixIdle
  /\ ClassifierIdle
  /\ VariantIdle
  /\ MergeIdle
  /\ BatchIdle

\* the clock steps the model takes: alternately to one ms short of the TTL
\* after the previous step, and one ms further
ClockStep(n) == IF n % 2 = 0 THEN cacheTimeout - 1 ELSE 1

Tick ==
  /\ ticks < MaxTicks
  /\ now' = now + ClockStep(ticks)
  /\ ticks' = ticks + 1
  /\ UNCHANGED << requested, started, cache, pc, sym, vi, calls, rets, found, online, probes, sent >>
  /\ UNCHANGED otherThanQuote

\* the request is answered and its slot is free again
Respond(r, isOnline, finding, returned, response) ==
  /\ sent' = Sent(sym[r], isOnline, probes[r], finding, calls[r], returned, response, now, sent)
  /\ pc' = [pc EXCEPT ![r] = "idle"]
  /\ sym' = [sym EXCEPT ![r] = EmptySymbol]
  /\ vi' = [vi EXCEPT ![r] = 0]
  /\ calls' = [calls EXCEPT ![r] = << >>]
  /\ rets' = [rets EXCEPT ![r] = << >>]
  /\ found' = [found EXCEPT ![r] = "none"]
  /\ online' = [online EXCEPT ![r] = "?"]
  /\ probes' = [probes EXCEPT ![r] = 0]

\* a request with an empty symbol parameter is rejected at once
StartBad(r, s) ==
  /\ pc[r] = "idle"
  /\ started < MaxRequests
  /\ BadRequest(s)
  /\ started' = started + 1
  /\ sent' = Sent(s, "?", 0, "none", << >>, << >>, Response(400, NoBody, "badreq"), now, sent)
  /\ UNCHANGED << requested, now, ticks, cache, pc, sym, vi, calls, rets, found, online, probes >>
  /\ UNCHANGED otherThanQuote

\* an isOnline() that makes its request to the reachability endpoint twice
CallIsOnline_Twice(n) == n + 2

\* await offlineDataService.isOnline(): one more call of the prober
CallIsOnline(n) == n + 1

\* a request arrives and awaits isOnline()
Start(r, s) ==
  /\ pc[r] = "idle"
  /\ started < MaxRequests
  /\ ~BadRequest(s)
  /\ started' = started + 1
  /\ pc' = [pc EXCEPT ![r] = "probe"]
  /\ sym' = [sym EXCEPT ![r] = s]
  /\ probes' = [probes EXCEPT ![r] = CallIsOnline(@)]
  /\ UNCHANGED << requested, now, ticks, cache, vi, calls, rets, found, online, sent >>
  /\ UNCHANGED otherThanQuote

\* getQuote returns q to the route, which answers
Return(r, answer, finding, returned, q, how, newCache) ==
  /\ cache' = newCache
  /\ \E x \in OnlineResponses(sym[r], q, how) : Respond(r, answer, finding, returned, x)

\* isOnline() resolves.  Offline: answer from the offline source.  Online:
\* getQuote is called, which answers from the cache or invokes the first
\* adapter
IsOnlineReturns(r, isOnline) ==
  /\ pc[r] = "probe"
  /\ LET answer == IF isOnline THEN "yes" ELSE "no"
     IN IF UseOfflineBranch(isOnline)
     THEN /\ \E x \in OfflineResponses(sym[r]) : Respond(r, answer, "none", << >>, x)
          /\ UNCHANGED cache
     ELSE LET cached == getCachedQuote(cache, sym[r], now)
              entry == cache[ToUpperCase(sym[r])]
              finding == IF entry = NoEntry THEN "none"
                         ELSE IF now - entry.timestamp >= cacheTimeout THEN "expired"
                         ELSE "fresh"
          IN IF cached # Null
             THEN Return(r, answer, finding, << >>, cached, "cache", cache)
             ELSE /\ pc' = [pc EXCEPT ![r] = FirstAdapter]
                  /\ vi' = [vi EXCEPT ![r] = 1]
                  /\ calls' = [calls EXCEPT ![r] = << FirstAdapter >>]
                  /\ found' = [found EXCEPT ![r] = finding]
                  /\ online' = [online EXCEPT ![r] = answer]
                  /\ UNCHANGED << cache, sym, rets, probes, sent >>
  /\ UNCHANGED << requested, started, now, ticks >>
  /\ UNCHANGED otherThanQuote

\* a getQuote that starts the next adapter without awaiting the one in flight
AfterAdapter_Eager(r, adapter, q) ==
  IF NextAdapter(adapter) = "fallback"
  THEN Return(r, online[r], found[r], Append(rets[r], q),
              getBasicEuropeanFallback(sym[r]), "fallback", cache)
  ELSE /\ pc' = [pc EXCEPT ![r] = NextAdapter(adapter)]
       /\ calls' = [calls EXCEPT ![r] = Append(@, NextAdapter(adapter))]
       /\ UNCHANGED << cache, sym, vi, rets, found, online, probes, sent >>

\* what getQuote does with the result q of adapter: tag, cache and return
\* it, or go on to the next adapter, or return the placeholder
AfterAdapter(r, adapter, q) ==
  IF Accepts(adapter, q)
  THEN LET enhanced == [q EXCEPT !.provider = ProviderTag(adapter)]
       IN Return(r, online[r], found[r], Append(rets[r], q), enhanced, "adapter",
                 setCachedQuote(cache, sym[r], enhanced, now))
  ELSE IF NextAdapter(adapter) = "fallback"
  THEN Return(r, online[r], found[r], Append(rets[r], q),
              getBasicEuropeanFallback(sym[r]), "fallback", cache)
  ELSE /\ pc' = [pc EXCEPT ![r] = NextAdapter(adapter)]
       /\ calls' = [calls EXCEPT ![r] = Append(@, NextAdapter(adapter))]
       /\ rets' = [rets EXCEPT ![r] = Append(@, q)]
       /\ UNCHANGED << cache, sym, vi, found, online, probes, sent >>

\* one variant's makeRequest of ServerFinnhubService.getQuote settles
FinnhubResponse(r, out) ==
  /\ pc[r] = "finnhub"
  /\ IF FinnhubAccepts(out)
     THEN AfterAdapter(r, "finnhub", FinnhubQuote(sym[r], out))
     ELSE IF vi[r] < Len(getSymbolVariants(sym[r]))
     THEN /\ vi' = [vi EXCEPT ![r] = @ + 1]
          /\ UNCHANGED << cache, pc, sym, calls, rets, found, online, probes, sent >>
     ELSE AfterAdapter(r, "finnhub", FinnhubZeroQuote(sym[r]))
  /\ UNCHANGED << requested, started, now, ticks >>
  /\ UNCHANGED otherThanQuote

\* the fetch of getAlphaVantageQuote settles
AlphaResponse(r, out) ==
  /\ pc[r] = "alpha"
  /\ AfterAdapter(r, "alpha", getAlphaVantageQuote(sym[r], out))
  /\ UNCHANGED << requested, started, now, ticks >>
  /\ UNCHANGED otherThanQuote

\* the fetch of getYahooFinanceQuote settles
YahooResponse(r, out) ==
  /\ pc[r] = "yahoo"
  /\ AfterAdapter(r, "yahoo", getYahooFinanceQuote(sym[r], out))
  /\ UNCHANGED << requested, started, now, ticks >>
  /\ UNCHANGED otherThanQuote

Next ==
  \/ Tick
  \/ \E r \in Requests, s \in requested : StartBad(r, s)
  \/ \E r \in Requests, s \in requested : Start(r, s)
  \/ \E r \in Requests, b \in BOOLEAN : IsOnlineReturns(r, b)
  \/ \E r \in Requests, out \in FinnhubOutcomes : FinnhubResponse(r, out)
  \/ \E r \in Requests, out \in AlphaOutcomes : AlphaResponse(r, out)
  \/ \E r \in Requests, out \in YahooOutcomes : YahooResponse(r, out)

Spec == Init /\ [][Next]_vars

\* ========================================================== refresh loop
\* RealTimePriceService (financialDataService.ts), driven by the effect of
\* the dashboard, and the static PriceService.  Timers fire and batches
\* settle whenever the environment lets them: a batch may be slow.

\* number of times the dashboard effect runs in one behaviour
MaxMounts == 2

\* number of setTimeout timers created in one behaviour
MaxTimers == 3

\* number of times the PriceService interval fires in one behaviour
MaxIntervalTicks == 2

\* investments.length of the dashboard: none, or some
InvestmentCounts == { 0, 1 }

\* updateCallbacks after stopPriceUpdates(callback)
AfterDelete(callbacks, callback) == callbacks \ { callback }

\* RealTimePriceService.scheduleUpdate: a new timer, kept in updateInterval
scheduleUpdate ==
  IF ~isRunning'
  THEN UNCHANGED << updateInterval, timers, created >>
  ELSE /\ created < MaxTimers
       /\ created' = created + 1
       /\ updateInterval' = created + 1
       /\ timers' = timers \cup { created + 1 }

\* the effect of dashboard.tsx:66-85 runs for an admin with n investments:
\* it creates handlePriceUpdates and calls startPriceUpdates, which is
\* suspended at await fmpService.isConfigured()
Mount(n) ==
  /\ mounted = 0
  /\ mounts < MaxMounts
  /\ n > 0
  /\ mounts' = mounts + 1
  /\ mounted' = mounts + 1
  /\ starting' = starting \cup { mounts + 1 }
  /\ UNCHANGED << updateCallbacks, updateInterval, isRunning, timers, created, inFlight,
                  psUpdateInterval, psInFlight, psFired >>
  /\ UNCHANGED otherThanRefresh

\* isConfigured() resolves for the startPriceUpdates call of callback: the
\* rest of startPriceUpdates runs
ConfiguredReturns(callback, configured) ==
  /\ callback \in starting
  /\ starting' = starting \ { callback }
  /\ IF ~configured
     THEN UNCHANGED << updateCallbacks, updateInterval, isRunning, timers, created >>
     ELSE /\ updateCallbacks' = updateCallbacks \cup { callback }
          /\ IF ~isRunning
             THEN isRunning' = TRUE /\ scheduleUpdate
             ELSE UNCHANGED << updateInterval, isRunning, timers, created >>
  /\ UNCHANGED << inFlight, mounted, mounts, psUpdateInterval, psInFlight, psFired >>
  /\ UNCHANGED otherThanRefresh

\* the cleanup of the effect: stopPriceUpdates(handlePriceUpdates)
Unmount ==
  /\ mounted # 0
  /\ mounted' = 0
  /\ updateCallbacks' = AfterDelete(updateCallbacks, mounted)
  /\ IF updateCallbacks' = {}
     THEN /\ isRunning' = FALSE
          /\ updateInterval' = 0
          /\ timers' = timers \ { updateInterval }
     ELSE UNCHANGED << isRunning, updateInterval, timers >>
  /\ UNCHANGED << created, inFlight, mounts, starting, psUpdateInterval, psInFlight, psFired >>
  /\ UNCHANGED otherThanRefresh

\* a pending timer fires: its callback calls fetchAndBroadcastUpdates, which
\* is suspended at await fmpService.getMultipleQuotes
TimerFires(id) ==
  /\ id \in timers
  /\ timers' = timers \ { id }
  /\ inFlight' = inFlight + 1
  /\ UNCHANGED << updateCallbacks, updateInterval, isRunning, created, mounted, mounts,
                  starting, psUpdateInterval, psInFlight, psFired >>
  /\ UNCHANGED otherThanRefresh

\* getMultipleQuotes settles: the updates are broadcast and the timer
\* callback goes on to if (this.isRunning) this.scheduleUpdate(investments)
BatchSettles ==
  /\ inFlight > 0
  /\ inFlight' = inFlight - 1
  /\ UNCHANGED isRunning
  /\ scheduleUpdate
  /\ UNCHANGED << updateCallbacks, mounted, mounts, starting, psUpdateInterval, psInFlight, psFired >>
  /\ UNCHANGED otherThanRefresh

\* PriceService.startPriceUpdates
PriceServiceStart ==
  /\ psUpdateInterval' = TRUE
  /\ UNCHANGED << updateCallbacks, updateInterval, isRunning, timers, created, inFlight,
                  mounted, mounts, starting, psInFlight, psFired >>
  /\ UNCHANGED otherThanRefresh

\* PriceService.stopPriceUpdates
PriceServiceStop ==
  /\ psUpdateInterval' = FALSE
  /\ UNCHANGED << updateCallbacks, updateInterval, isRunning, timers, created, inFlight,
                  mounted, mounts, starting, psInFlight, psFired >>
  /\ UNCHANGED otherThanRefresh

\* the setInterval timer of PriceService fires: its async callback is
\* suspended at await Promise.all
IntervalFires ==
  /\ psUpdateInterval
  /\ psFired < MaxIntervalTicks
  /\ psFired' = psFired + 1
  /\ psInFlight' = psInFlight + 1
  /\ UNCHANGED << updateCallbacks, updateInterval, isRunning, timers, created, inFlight,
                  mounted, mounts, starting, psUpdateInterval >>
  /\ UNCHANGED otherThanRefresh

\* Promise.all of an interval callback settles and onUpdate is called
IntervalBatchSettles ==
  /\ psInFlight > 0
  /\ psInFlight' = psInFlight - 1
  /\ UNCHANGED << updateCallbacks, updateInterval, isRunning, timers, created, inFlight,
                  mounted, mounts, starting, psUpdateInterval, psFired >>
  /\ UNCHANGED otherThanRefresh

RefreshInit ==
  /\ requested = { EmptySymbol }
  /\ QuoteIdle
  /\ RefreshIdle
  /\ apiKey = TRUE
  /\ LimiterIdle
  /\ SearchIdle
  /\ StoreIdle
  /\ SessionIdle
  /\ KeyIdle
  /\ SuffixIdle
  /\ ClassifierIdle
  /\ VariantIdle
  /\ MergeIdle
  /\ BatchIdle

RefreshNext ==
  \/ \E n \in InvestmentCounts : Mount(n)
  \/ \E callback \in 1..MaxMounts, configured \in BOOLEAN :
       ConfiguredReturns(callback, configured)
  \/ Unmount
  \/ \E id \in 1..MaxTimers : TimerFires(id)
  \/ BatchSettles
  \/ PriceServiceStart
  \/ PriceServiceStop
  \/ IntervalFires
  \/ IntervalBatchSettles

RefreshSpec == RefreshInit /\ [][RefreshNext]_vars

\* ================================================ Finnhub makeRequest
\* ServerFinnhubService.makeRequest (finnhub.ts:295-338): several calls on
\* the one adapter instance, each suspended at its awaits.  A setTimeout
\* fires when the clock has reached the time at which it is due.

\* number of times the clock is advanced in one behaviour
MaxAdvances == 3

\* the steps by which the clock advances, in ms
ClockSteps == { 50, 1000 }

\* minRequestInterval = 100
minRequestInterval == 100

\* setTimeout(resolve, 1000) after a 429
retryDelay == 1000

\* fetch rejects instead of resolving to a response
NetworkError == 0

\* what a fetch settles with: a rejection or a response with this status
FetchStatuses == { NetworkError, 200, 429, 500 }

\* response.ok
Ok(status) == status >= 200 /\ status <= 299

\* a makeRequest that retries after every 429
ShouldRetry_Every429(status, attempt) == status = 429

\* only the first response is tested for 429
ShouldRetry(status, attempt) == status = 429 /\ attempt = 1

\* time passes, up to the moment at which the next pending timer is due
LimiterTick(d) ==
  /\ advances < MaxAdvances
  /\ \A m \in LimiterCalls : mpc[m] \in { "wait", "backoff" } => clock + d <= due[m]
  /\ advances' = advances + 1
  /\ clock' = clock + d
  /\ UNCHANGED << apiKey, lastRequestTime, mpc, due, sentAt, seen >>
  /\ UNCHANGED otherThanLimiter

\* the call issues fetch(url) and is suspended at it
IssueFetch(m) ==
  /\ sentAt' = [sentAt EXCEPT ![m] = Append(@, clock)]
  /\ mpc' = [mpc EXCEPT ![m] = "fetch"]

\* makeRequest is called: no key, or too early and wait, or fetch at once;
\* the calls are numbered in the order in which they are made
MakeRequest(m) ==
  /\ mpc[m] = "idle"
  /\ \A k \in LimiterCalls : k < m => mpc[k] # "idle"
  /\ IF ~apiKey
     THEN /\ mpc' = [mpc EXCEPT ![m] = "rejected"]
          /\ UNCHANGED << lastRequestTime, due, sentAt >>
     ELSE LET timeSinceLastRequest == clock - lastRequestTime
          IN IF timeSinceLastRequest < minRequestInterval
             THEN /\ mpc' = [mpc EXCEPT ![m] = "wait"]
                  /\ due' = [due EXCEPT ![m] = clock + (minRequestInterval - timeSinceLastRequest)]
                  /\ UNCHANGED << lastRequestTime, sentAt >>
             ELSE /\ lastRequestTime' = clock
                  /\ IssueFetch(m)
                  /\ UNCHANGED due
  /\ UNCHANGED << apiKey, clock, advances, seen >>
  /\ UNCHANGED otherThanLimiter

\* the rate-limit setTimeout fires: lastRequestTime = Date.now(), then fetch
WaitEnds(m) ==
  /\ mpc[m] = "wait"
  /\ clock >= due[m]
  /\ lastRequestTime' = clock
  /\ IssueFetch(m)
  /\ UNCHANGED << apiKey, clock, advances, due, seen >>
  /\ UNCHANGED otherThanLimiter

\* a fetch settles: reject, back off before the retry, throw on a status
\* that is not OK, or return the body
FetchSettles(m, status) ==
  /\ mpc[m] = "fetch"
  /\ seen' = [seen EXCEPT ![m] = Append(@, status)]
  /\ IF status = NetworkError
     THEN mpc' = [mpc EXCEPT ![m] = "rejected"] /\ UNCHANGED due
     ELSE IF ShouldRetry(status, Len(sentAt[m]))
     THEN /\ mpc' = [mpc EXCEPT ![m] = "backoff"]
          /\ due' = [due EXCEPT ![m] = clock + retryDelay]
     ELSE IF ~Ok(status)
     THEN mpc' = [mpc EXCEPT ![m] = "rejected"] /\ UNCHANGED due
     ELSE mpc' = [mpc EXCEPT ![m] = "resolved"] /\ UNCHANGED due
  /\ UNCHANGED << apiKey, clock, advances, lastRequestTime, sentAt >>
  /\ UNCHANGED otherThanLimiter

\* the backoff setTimeout fires: the retry is fetched
BackoffEnds(m) ==
  /\ mpc[m] = "backoff"
  /\ clock >= due[m]
  /\ IssueFetch(m)
  /\ UNCHANGED << apiKey, clock, advances, lastRequestTime, due, seen >>
  /\ UNCHANGED otherThanLimiter

LimiterInit ==
  /\ requested = { EmptySymbol }
  /\ QuoteIdle
  /\ RefreshIdle
  /\ apiKey \in BOOLEAN
  /\ LimiterIdle
  /\ SearchIdle
  /\ StoreIdle
  /\ SessionIdle
  /\ KeyIdle
  /\ SuffixIdle
  /\ ClassifierIdle
  /\ VariantIdle
  /\ MergeIdle
  /\ BatchIdle

LimiterNext ==
  \/ \E d \in ClockSteps : LimiterTick(d)
  \/ \E m \in LimiterCalls : MakeRequest(m)
  \/ \E m \in LimiterCalls : WaitEnds(m)
  \/ \E m \in LimiterCalls, status \in FetchStatuses : FetchSettles(m, status)
  \/ \E m \in LimiterCalls : BackoffEnds(m)

LimiterSpec == LimiterInit /\ [][LimiterNext]_vars

\* ============================================ GET /api/finnhub/search
\* number of search requests received in one behaviour
MaxSearches == 2

\* String.prototype.startsWith
StartsWith(s, pre) == Len(pre) <= Len(s) /\ SubSeq(s, 1, Len(pre)) = pre

\* String.prototype.toLowerCase
LowerChar(c) ==
  IF \E i \in 1..Len(UpperLetters) : UpperLetters[i] = c
  THEN LowerLetters[CHOOSE i \in 1..Len(UpperLetters) : UpperLetters[i] = c]
  ELSE c

ToLowerCase(s) == [i \in 1..Len(s) |-> LowerChar(s[i])]

\* the queries a client may put in ?q=
Queries == { << >>, << "a","a" >>, << "A","p","p" >>, << "e","t","f" >>, << "z","z" >> }

\* ServerFinnhubService.categorizeSymbol
categorizeSymbol(symbol, description) ==
  LET symbolUpper == ToUpperCase(symbol)
      descUpper == ToUpperCase(description)
  IN IF \/ Includes(descUpper, << "E","T","F" >>)
        \/ Includes(descUpper, << "F","U","N","D" >>)
        \/ Includes(descUpper, << "I","N","D","E","X" >>)
        \/ Includes(descUpper, << "E","X","C","H","A","N","G","E"," ","T","R","A","D","E","D" >>)
        \/ Includes(descUpper, << "V","A","N","G","U","A","R","D" >>)
        \/ Includes(descUpper, << "I","S","H","A","R","E","S" >>)
        \/ Includes(descUpper, << "S","P","D","R" >>)
        \/ Includes(descUpper, << "X","T","R","A","C","K","E","R","S" >>)
        \/ Includes(descUpper, << "A","M","U","N","D","I" >>)
        \/ Includes(symbolUpper, << "E","T","F" >>)
        \/ StartsWith(symbolUpper, << "V","W","C" >>)
        \/ StartsWith(symbolUpper, << "V","W","C","E" >>)
        \/ StartsWith(symbolUpper, << "S","W","D","A" >>)
        \/ StartsWith(symbolUpper, << "E","U","N","L" >>)
     THEN "ETF"
     ELSE IF \/ Includes(symbolUpper, << "-","U","S","D" >>)
             \/ Includes(symbolUpper, << "B","T","C" >>)
             \/ Includes(symbolUpper, << "E","T","H" >>)
             \/ EndsWith(symbolUpper, << "U","S","D","T" >>)
             \/ Includes(symbolUpper, << "C","R","Y","P","T","O" >>)
     THEN "Crypto"
     ELSE "Stock"

\* entries of data.result as Finnhub's /search returns them; an empty
\* displaySymbol or description stands for a missing field
UpstreamItems ==
  { [symbol |-> AAPL, displaySymbol |-> << >>, description |-> << "A","p","p","l","e" >>],
    [symbol |-> << "V","W","C","E" >>, displaySymbol |-> << "V","W","C","E",".","D","E" >>, description |-> << "W","o","r","l","d"," ","F","u","n","d" >>],
    [symbol |-> << "Z","Z" >>, displaySymbol |-> << >>, description |-> << >>] }

\* what makeRequest('/search') can come back with: a rejection, a body
\* without result, or a body whose result has up to two entries
SearchOutcomes ==
  { [kind |-> "throw", hasResult |-> FALSE, result |-> << >>],
    [kind |-> "json", hasResult |-> FALSE, result |-> << >>],
    [kind |-> "json", hasResult |-> TRUE, result |-> << >>] } \cup
  { [kind |-> "json", hasResult |-> TRUE, result |-> << a >>] : a \in UpstreamItems } \cup
  { [kind |-> "json", hasResult |-> TRUE, result |-> << a, b >>] :
      a \in UpstreamItems, b \in UpstreamItems }

\* .filter((item) => item.symbol && item.description)
KeepItem(item) == item.symbol # << >> /\ item.description # << >>

\* the entry searchSymbol maps an item of data.result to
SearchEntry(item) ==
  [symbol |-> IF item.displaySymbol # << >> THEN item.displaySymbol ELSE item.symbol,
   name |-> item.description,
   type |-> categorizeSymbol(item.symbol, item.description),
   origin |-> "finnhub"]

\* .slice(0, 15)
Slice15(list) == SubSeq(list, 1, IF Len(list) < 15 THEN Len(list) ELSE 15)

IsETF(entry) == entry.type = "ETF"

IsNotETF(entry) == entry.type # "ETF"

\* results.sort with the ETF-first comparator: a stable partition
SortETFFirst(list) == SelectSeq(list, IsETF) \o SelectSeq(list, IsNotETF)

\* the query makes searchSymbol put ETFs first
LooksLikeETFSearch(query) ==
  LET queryLower == ToLowerCase(query)
  IN \/ Includes(queryLower, << "e","t","f" >>)
     \/ Includes(queryLower, << "v","a","n","g","u","a","r","d" >>)
     \/ Includes(queryLower, << "i","s","h","a","r","e","s" >>)

\* ServerFinnhubService.searchSymbol, given what makeRequest came back with
searchSymbol(query, out) ==
  IF out.kind = "throw" \/ ~out.hasResult
  THEN << >>
  ELSE LET kept == SelectSeq(out.result, KeepItem)
           results == Slice15([i \in 1..Len(kept) |-> SearchEntry(kept[i])])
       IN IF LooksLikeETFSearch(query) THEN SortETFFirst(results) ELSE results

\* the name the offline table holds for a symbol
OfflineName(key) == << "A","p","p","l","e" >>

\* offlineDataService.searchSymbolOffline: the table entries whose symbol
\* or name contains the query, letter case ignored, at most 10 of them
searchSymbolOffline(query) ==
  LET wanted == ToUpperCase(query)
      Matches(key) == \/ Includes(ToUpperCase(key), wanted)
                      \/ Includes(ToUpperCase(OfflineName(key)), wanted)
      hits == { key \in OfflineSymbols : Matches(key) }
  IN IF AAPL \in hits
     THEN << [symbol |-> AAPL, name |-> OfflineName(AAPL), origin |-> "offline"] >>
     ELSE << >>

\* if (!query) return res.status(400)
SearchStartBad(query) ==
  /\ searchPc = "idle"
  /\ searched < MaxSearches
  /\ query = << >>
  /\ searched' = searched + 1
  /\ searchSent' = SearchSent(query, "?", FALSE, << >>, 400, << >>)
  /\ UNCHANGED << searchPc, searchQuery >>
  /\ UNCHANGED otherThanSearch

\* a search request arrives and awaits isOnline()
SearchStart(query) ==
  /\ searchPc = "idle"
  /\ searched < MaxSearches
  /\ query # << >>
  /\ searched' = searched + 1
  /\ searchPc' = "probe"
  /\ searchQuery' = query
  /\ UNCHANGED searchSent
  /\ UNCHANGED otherThanSearch

\* isOnline() resolves: offline, the offline search is sent; online,
\* searchSymbol is called and awaited
SearchIsOnlineReturns(isOnline) ==
  /\ searchPc = "probe"
  /\ IF ~isOnline
     THEN /\ searchSent' = SearchSent(searchQuery, "no", FALSE, << >>, 200,
                                      searchSymbolOffline(searchQuery))
          /\ searchPc' = "idle"
          /\ searchQuery' = << >>
     ELSE /\ searchPc' = "finnhub"
          /\ UNCHANGED << searchQuery, searchSent >>
  /\ UNCHANGED searched
  /\ UNCHANGED otherThanSearch

\* searchSymbol resolves and its results are sent as they are
SearchSymbolReturns(out) ==
  /\ searchPc = "finnhub"
  /\ LET results == searchSymbol(searchQuery, out)
     IN searchSent' = SearchSent(searchQuery, "yes", TRUE, results, 200, results)
  /\ searchPc' = "idle"
  /\ searchQuery' = << >>
  /\ UNCHANGED searched
  /\ UNCHANGED otherThanSearch

SearchInit ==
  /\ requested = { EmptySymbol }
  /\ QuoteIdle
  /\ RefreshIdle
  /\ apiKey = TRUE
  /\ LimiterIdle
  /\ SearchIdle
  /\ StoreIdle
  /\ SessionIdle
  /\ KeyIdle
  /\ SuffixIdle
  /\ ClassifierIdle
  /\ VariantIdle
  /\ MergeIdle
  /\ BatchIdle

SearchNext ==
  \/ \E query \in Queries : SearchStartBad(query)
  \/ \E query \in Queries : SearchStart(query)
  \/ \E isOnline \in BOOLEAN : SearchIsOnlineReturns(isOnline)
  \/ \E out \in SearchOutcomes : SearchSymbolReturns(out)

SearchSpec == SearchInit /\ [][SearchNext]_vars

\* ---------------------------------------------- MemStorage and its routes
\* store operations per behaviour
MaxStoreOps == 3

randomUUID_Constant(issued) == 100

\* crypto.randomUUID(): a key that no earlier call returned and no sample
\* record has; issued is the number of earlier calls
randomUUID(issued) == 100 + issued

\* { ...existing, ...updates }: a field of updates overrides that of existing
Spread(existing, updates) ==
  [f \in DOMAIN existing \cup DOMAIN updates |->
     IF f \in DOMAIN updates THEN updates[f] ELSE existing[f]]

\* Map.prototype.set
MapSet(map, key, value) ==
  [k \in DOMAIN map \cup { key } |-> IF k = key THEN value ELSE map[k]]

\* Map.prototype.delete
MapDelete(map, key) == [k \in DOMAIN map \ { key } |-> map[k]]

\* req.params.id: two sample investments, the first investment created, and
\* an id no investment has
ParamIds == { 1, 3, 9, randomUUID(0) }

\* bodies of POST /api/investments: one the schema accepts, one it rejects
InsertInvestments ==
  { [symbol |-> "MSFT", quantity |-> 4, avgPrice |-> 3000, currentPrice |-> 3100],
    [symbol |-> "MSFT", quantity |-> 0, avgPrice |-> 3000, currentPrice |-> 3100] }

\* insertInvestmentSchema.parse succeeds: quantity, avgPrice and currentPrice
\* are z.number().positive()
ValidInsertInvestment(body) ==
  body.quantity > 0 /\ body.avgPrice > 0 /\ body.currentPrice > 0

\* bodies of PUT /api/investments/:id, which the route does not validate
UpdateBodies ==
  { [quantity |-> -2], [quantity |-> 6], [id |-> 3], [currentPrice |-> 2000] }

\* quantity in the body of POST /api/investments/:id/sell, for an investment
\* that owns the quantity owned
SellQuantities(owned) == { -2, 0, 1, owned, owned + 1 }

\* price in the body of the sell and price routes
BodyPrices == { 0, 2000 }

\* MemStorage.updateInvestment, the map it leaves
updateInvestment(map, id, updates) ==
  IF id \in DOMAIN map THEN MapSet(map, id, Spread(map[id], updates)) ELSE map

\* MemStorage.createTransaction, the map it leaves: the inserted record is
\* spread and given its id
createTransaction(map, issued, insertTransaction) ==
  MapSet(map, randomUUID(issued), Spread(insertTransaction, [id |-> randomUUID(issued)]))

StoreAnswer(op, status) == [op |-> op, status |-> status]

\* POST /api/investments
CreateInvestment(body) ==
  /\ storeOps < MaxStoreOps
  /\ storeOps' = storeOps + 1
  /\ IF ValidInsertInvestment(body)
     THEN LET id == randomUUID(uuids)
              investment == Spread(body, [id |-> id])
              buy(tid) == Trade(tid, "buy", investment.symbol, investment.quantity,
                                investment.avgPrice, "Alle")
          IN /\ investments' = MapSet(investments, id, investment)
             /\ transactions' = createTransaction(transactions, uuids + 1, buy(Null))
             /\ uuids' = uuids + 2
             /\ storeLast' = StoreAnswer("create", 201)
     ELSE /\ UNCHANGED << investments, transactions, uuids >>
          /\ storeLast' = StoreAnswer("create", 400)
  /\ UNCHANGED << lsInvestments, lsTransactions, lsNow >>
  /\ UNCHANGED otherThanStore

\* PUT /api/investments/:id
PutInvestment(id, updates) ==
  /\ storeOps < MaxStoreOps
  /\ storeOps' = storeOps + 1
  /\ investments' = updateInvestment(investments, id, updates)
  /\ storeLast' = StoreAnswer("update", IF id \in DOMAIN investments THEN 200 ELSE 404)
  /\ UNCHANGED << transactions, uuids, lsInvestments, lsTransactions, lsNow >>
  /\ UNCHANGED otherThanStore

\* DELETE /api/investments/:id
DeleteInvestment(id) ==
  /\ storeOps < MaxStoreOps
  /\ storeOps' = storeOps + 1
  /\ investments' = MapDelete(investments, id)
  /\ storeLast' = StoreAnswer("delete", IF id \in DOMAIN investments THEN 204 ELSE 404)
  /\ UNCHANGED << transactions, uuids, lsInvestments, lsTransactions, lsNow >>
  /\ UNCHANGED otherThanStore

\* MemStorage.sellInvestment throws
SellThrows(id, quantity) ==
  \/ id \notin DOMAIN investments
  \/ quantity > investments[id].quantity

\* a sellInvestment that records the sale before it looks at the holding
SellInvestment_RecordsFirst(id, quantity, price) ==
  /\ storeOps < MaxStoreOps
  /\ storeOps' = storeOps + 1
  /\ IF quantity = 0 \/ price = 0
     THEN /\ UNCHANGED << investments, transactions, uuids >>
          /\ storeLast' = StoreAnswer("sell", 400)
     ELSE /\ transactions' =
               createTransaction(transactions, uuids,
                                 Trade(Null, "sell", "", quantity, price, "Alle"))
          /\ uuids' = uuids + 1
          /\ IF SellThrows(id, quantity)
             THEN /\ UNCHANGED investments
                  /\ storeLast' = StoreAnswer("sell: thrown", 400)
             ELSE /\ investments' =
                       IF quantity = investments[id].quantity
                       THEN MapDelete(investments, id)
                       ELSE updateInvestment(investments, id,
                                             [quantity |-> investments[id].quantity - quantity])
                  /\ storeLast' = StoreAnswer("sell", 200)
  /\ UNCHANGED << lsInvestments, lsTransactions, lsNow >>
  /\ UNCHANGED otherThanStore

\* POST /api/investments/:id/sell: op "sell: thrown" is the answer of the
\* catch block to an error thrown by sellInvestment
SellInvestment(id, quantity, price) ==
  /\ storeOps < MaxStoreOps
  /\ storeOps' = storeOps + 1
  /\ IF quantity = 0 \/ price = 0
     THEN /\ UNCHANGED << investments, transactions, uuids >>
          /\ storeLast' = StoreAnswer("sell", 400)
     ELSE IF SellThrows(id, quantity)
     THEN /\ UNCHANGED << investments, transactions, uuids >>
          /\ storeLast' = StoreAnswer("sell: thrown", 400)
     ELSE LET existing == investments[id]
              sell(tid) == Trade(tid, "sell", existing.symbol, quantity, price, "Alle")
          IN /\ transactions' = createTransaction(transactions, uuids, sell(Null))
             /\ uuids' = uuids + 1
             /\ investments' =
                  IF quantity = existing.quantity
                  THEN MapDelete(investments, id)
                  ELSE updateInvestment(investments, id,
                                        [quantity |-> existing.quantity - quantity])
             /\ storeLast' = StoreAnswer("sell", 200)
  /\ UNCHANGED << lsInvestments, lsTransactions, lsNow >>
  /\ UNCHANGED otherThanStore

\* PATCH /api/investments/:id/price
UpdateInvestmentPrice(id, price) ==
  /\ storeOps < MaxStoreOps
  /\ storeOps' = storeOps + 1
  /\ IF price = 0
     THEN /\ UNCHANGED << investments, transactions, uuids >>
          /\ storeLast' = StoreAnswer("price", 400)
     ELSE IF id \notin DOMAIN investments
     THEN /\ UNCHANGED << investments, transactions, uuids >>
          /\ storeLast' = StoreAnswer("price", 404)
     ELSE LET updated == updateInvestment(investments, id, [currentPrice |-> price])
              note(tid) == PriceUpdate(tid, updated[id].symbol, price, "Alle")
          IN /\ investments' = updated
             /\ transactions' = createTransaction(transactions, uuids, note(Null))
             /\ uuids' = uuids + 1
             /\ storeLast' = StoreAnswer("price", 200)
  /\ UNCHANGED << lsInvestments, lsTransactions, lsNow >>
  /\ UNCHANGED otherThanStore

\* POST /api/transactions with a body insertTransactionSchema accepts
PostTransaction ==
  /\ storeOps < MaxStoreOps
  /\ storeOps' = storeOps + 1
  /\ LET buy(tid) == Trade(tid, "buy", "MSFT", 2, 3000, "Ali")
     IN transactions' = createTransaction(transactions, uuids, buy(Null))
  /\ uuids' = uuids + 1
  /\ storeLast' = StoreAnswer("transaction", 201)
  /\ UNCHANGED << investments, lsInvestments, lsTransactions, lsNow >>
  /\ UNCHANGED otherThanStore

\* ---------------------------------------------------- LocalStorageService
\* the investments handed to LocalStorageService.addInvestment
LocalInvestments ==
  { [symbol |-> "MSFT", quantity |-> 4, avgPrice |-> 3000, currentPrice |-> 3100],
    [symbol |-> "MSFT", quantity |-> -2, avgPrice |-> 3000, currentPrice |-> 3100] }

\* the ids handed to LocalStorageService: that of an investment added at
\* once, and an id no investment has
LocalIds == { StartTime, 9 }

\* milliseconds that pass between two readings of Date.now() in one call
ClockReadings == { 0, 1 }

\* Math.max(0, n)
Max0(n) == IF n > 0 THEN n ELSE 0

\* Array.prototype.findIndex(inv => inv.id === id), 0 for -1
FindIndex(array, id) ==
  IF \E i \in 1..Len(array) : array[i].id = id
  THEN CHOOSE i \in 1..Len(array) :
         array[i].id = id /\ \A j \in 1..(i - 1) : array[j].id # id
  ELSE 0

\* Array.prototype.filter(inv => inv.id !== id)
RECURSIVE FilterOut(_, _)
FilterOut(array, id) ==
  IF array = << >> THEN << >>
  ELSE IF Head(array).id = id THEN FilterOut(Tail(array), id)
  ELSE << Head(array) >> \o FilterOut(Tail(array), id)

\* LocalStorageService.addTransaction, the array it stores; the id of t is
\* Date.now() (its decimal rendering is one-to-one)
addTransaction(array, t) == << t >> \o array

\* LocalStorageService.addInvestment; d ms pass before addTransaction reads
\* the clock
LocalAddInvestment(investment, d) ==
  /\ storeOps < MaxStoreOps
  /\ storeOps' = storeOps + 1
  /\ LET newInvestment ==
           Spread(investment, [id |-> lsNow, quantity |-> Max0(investment.quantity)])
     IN /\ lsInvestments' = Append(lsInvestments, newInvestment)
        /\ lsTransactions' =
             addTransaction(lsTransactions,
                            Trade(lsNow + d, "buy", newInvestment.symbol,
                                  newInvestment.quantity, newInvestment.avgPrice, "Alle"))
  /\ lsNow' = lsNow + d
  /\ storeLast' = StoreAnswer("localAdd", 1)
  /\ UNCHANGED << investments, transactions, uuids >>
  /\ UNCHANGED otherThanStore

\* LocalStorageService.updateInvestment
LocalUpdateInvestment(id, updates) ==
  /\ storeOps < MaxStoreOps
  /\ storeOps' = storeOps + 1
  /\ LET index == FindIndex(lsInvestments, id)
     IN IF index = 0
        THEN /\ UNCHANGED lsInvestments
             /\ storeLast' = StoreAnswer("localUpdate", 0)
        ELSE /\ lsInvestments' =
                  [lsInvestments EXCEPT ![index] = Spread(@, updates)]
             /\ storeLast' = StoreAnswer("localUpdate", 1)
  /\ UNCHANGED << investments, transactions, uuids, lsTransactions, lsNow >>
  /\ UNCHANGED otherThanStore

\* LocalStorageService.deleteInvestment
LocalDeleteInvestment(id) ==
  /\ storeOps < MaxStoreOps
  /\ storeOps' = storeOps + 1
  /\ lsInvestments' = FilterOut(lsInvestments, id)
  /\ storeLast' =
       StoreAnswer("localDelete", IF FindIndex(lsInvestments, id) = 0 THEN 0 ELSE 1)
  /\ UNCHANGED << investments, transactions, uuids, lsTransactions, lsNow >>
  /\ UNCHANGED otherThanStore

\* LocalStorageService.updateInvestmentPrice
LocalUpdateInvestmentPrice(id, newPrice) ==
  /\ storeOps < MaxStoreOps
  /\ storeOps' = storeOps + 1
  /\ LET index == FindIndex(lsInvestments, id)
     IN IF index = 0
        THEN /\ UNCHANGED << lsInvestments, lsTransactions >>
             /\ storeLast' = StoreAnswer("localPrice", 0)
        ELSE /\ lsInvestments' =
                  [lsInvestments EXCEPT ![index] = Spread(@, [currentPrice |-> newPrice])]
             /\ lsTransactions' =
                  addTransaction(lsTransactions,
                                 PriceUpdate(lsNow, lsInvestments[index].symbol, newPrice,
                                             "Alle"))
             /\ storeLast' = StoreAnswer("localPrice", 1)
  /\ UNCHANGED << investments, transactions, uuids, lsNow >>
  /\ UNCHANGED otherThanStore

\* a millisecond passes in the browser
LocalTick ==
  /\ storeOps < MaxStoreOps
  /\ storeOps' = storeOps + 1
  /\ lsNow' = lsNow + 1
  /\ storeLast' = StoreAnswer("tick", 1)
  /\ UNCHANGED << investments, transactions, uuids, lsInvestments, lsTransactions >>
  /\ UNCHANGED otherThanStore

StoreInit ==
  /\ requested = { EmptySymbol }
  /\ QuoteIdle
  /\ RefreshIdle
  /\ apiKey = TRUE
  /\ LimiterIdle
  /\ SearchIdle
  /\ StoreIdle
  /\ SessionIdle
  /\ KeyIdle
  /\ SuffixIdle
  /\ ClassifierIdle
  /\ VariantIdle
  /\ MergeIdle
  /\ BatchIdle

StoreNext ==
  \/ \E body \in InsertInvestments : CreateInvestment(body)
  \/ \E id \in ParamIds, updates \in UpdateBodies : PutInvestment(id, updates)
  \/ \E id \in ParamIds : DeleteInvestment(id)
  \/ \E id \in ParamIds, price \in BodyPrices :
       \E quantity \in SellQuantities(IF id \in DOMAIN investments
                                      THEN investments[id].quantity ELSE 1) :
         SellInvestment(id, quantity, price)
  \/ \E id \in ParamIds, price \in BodyPrices : UpdateInvestmentPrice(id, price)
  \/ PostTransaction
  \/ \E investment \in LocalInvestments, d \in ClockReadings :
       LocalAddInvestment(investment, d)
  \/ \E id \in LocalIds, updates \in UpdateBodies : LocalUpdateInvestment(id, updates)
  \/ \E id \in LocalIds : LocalDeleteInvestment(id)
  \/ \E id \in LocalIds, price \in BodyPrices : LocalUpdateInvestmentPrice(id, price)
  \/ LocalTick

StoreSpec == StoreInit /\ [][StoreNext]_vars

\* ------------------------------------------------ App, Login and Dashboard
\* store mutations and loop starts per behaviour
MaxLog == 3

\* what may be typed into the password field
Passwords == { "", "0000", "1234" }

\* the user Login.loginAsAli hands to onLogin
loginAsAli == [name |-> "Ali", role |-> "Viewer", isAdmin |-> FALSE]

\* the user Login.verifyPassword hands to onLogin
loginAsAlle == [name |-> "Alle", role |-> "Admin", isAdmin |-> TRUE]

\* Login.verifyPassword: the comparison
verifyPassword(typed) == typed = "0000"

ActionsRendered_Always(user) == TRUE

\* Dashboard: the add button and the row buttons edit, sell, delete are
\* rendered
ActionsRendered(user) == user.isAdmin

\* a mutation or loop start, and whether an admin session issued it
Issued(what) == [what |-> what, admin |-> currentUser.isAdmin]

\* the state of Login after it is unmounted and mounted again
MountsLogin ==
  /\ showPasswordModal' = FALSE
  /\ password' = ""
  /\ passwordError' = FALSE

\* the state of Dashboard after it is unmounted and mounted again
MountsDashboard ==
  /\ showInvestmentForm' = FALSE
  /\ editingInvestment' = FALSE
  /\ editingPriceId' = FALSE
  /\ sellDialog' = FALSE
  /\ effectRan' = FALSE

\* the component state of Dashboard and of Login
dashboardState == << showInvestmentForm, editingInvestment, editingPriceId, sellDialog,
                     effectRan >>

loginState == << showPasswordModal, password, passwordError >>

\* click on the Ali card
LoginAsAli ==
  /\ currentUser = NoUser
  /\ currentUser' = loginAsAli
  /\ MountsLogin
  /\ MountsDashboard
  /\ UNCHANGED log
  /\ UNCHANGED otherThanSession

\* click on the Alle card: Login.showPasswordPrompt
ShowPasswordPrompt ==
  /\ currentUser = NoUser
  /\ showPasswordModal' = TRUE
  /\ password' = ""
  /\ passwordError' = FALSE
  /\ UNCHANGED << currentUser, dashboardState, log >>
  /\ UNCHANGED otherThanSession

\* typing into the password field of the modal
TypePassword(typed) ==
  /\ currentUser = NoUser
  /\ showPasswordModal
  /\ password' = typed
  /\ UNCHANGED << currentUser, showPasswordModal, passwordError, dashboardState, log >>
  /\ UNCHANGED otherThanSession

\* Login.verifyPassword
VerifyPassword ==
  /\ currentUser = NoUser
  /\ showPasswordModal
  /\ IF verifyPassword(password)
     THEN /\ currentUser' = loginAsAlle
          /\ MountsLogin
          /\ MountsDashboard
     ELSE /\ passwordError' = TRUE
          /\ UNCHANGED << currentUser, showPasswordModal, password, dashboardState >>
  /\ UNCHANGED log
  /\ UNCHANGED otherThanSession

\* App.handleLogout: Dashboard is unmounted, Login mounted
Logout ==
  /\ currentUser # NoUser
  /\ currentUser' = NoUser
  /\ MountsLogin
  /\ MountsDashboard
  /\ UNCHANGED log
  /\ UNCHANGED otherThanSession

\* the effect that starts the price updates; the dashboard shows investments
PriceUpdatesEffect ==
  /\ currentUser # NoUser
  /\ ~effectRan
  /\ Len(log) < MaxLog
  /\ effectRan' = TRUE
  /\ log' = IF currentUser.isAdmin THEN Append(log, Issued("startPriceUpdates")) ELSE log
  /\ UNCHANGED << currentUser, loginState, showInvestmentForm, editingInvestment,
                  editingPriceId, sellDialog >>
  /\ UNCHANGED otherThanSession

\* click on "Aggiungi Investimento"
ClickAdd ==
  /\ currentUser # NoUser
  /\ ActionsRendered(currentUser)
  /\ showInvestmentForm' = TRUE
  /\ UNCHANGED << currentUser, loginState, editingInvestment, editingPriceId, sellDialog,
                  effectRan, log >>
  /\ UNCHANGED otherThanSession

\* Dashboard.handleEditInvestment, from the edit button of a row
HandleEditInvestment ==
  /\ currentUser # NoUser
  /\ ActionsRendered(currentUser)
  /\ IF ~currentUser.isAdmin
     THEN UNCHANGED << showInvestmentForm, editingInvestment >>
     ELSE showInvestmentForm' = TRUE /\ editingInvestment' = TRUE
  /\ UNCHANGED << currentUser, loginState, editingPriceId, sellDialog, effectRan, log >>
  /\ UNCHANGED otherThanSession

\* InvestmentForm.onSubmit with valid data, then onSuccess and onClose
SubmitInvestmentForm ==
  /\ currentUser # NoUser
  /\ showInvestmentForm
  /\ Len(log) < MaxLog
  /\ log' = Append(log, Issued(IF editingInvestment THEN "updateInvestment"
                                                     ELSE "addInvestment"))
  /\ showInvestmentForm' = FALSE
  /\ editingInvestment' = FALSE
  /\ UNCHANGED << currentUser, loginState, editingPriceId, sellDialog, effectRan >>
  /\ UNCHANGED otherThanSession

\* Dashboard.handlePriceEdit; no element of the page calls it, so it is taken
\* to be callable whenever the dashboard is mounted
HandlePriceEdit ==
  /\ currentUser # NoUser
  /\ editingPriceId' = IF ~currentUser.isAdmin THEN editingPriceId ELSE TRUE
  /\ UNCHANGED << currentUser, loginState, showInvestmentForm, editingInvestment,
                  sellDialog, effectRan, log >>
  /\ UNCHANGED otherThanSession

\* Dashboard.handlePriceUpdate with a valid newPrice; callable like
\* handlePriceEdit
HandlePriceUpdate ==
  /\ currentUser # NoUser
  /\ Len(log) < MaxLog
  /\ IF ~currentUser.isAdmin
     THEN UNCHANGED << editingPriceId, log >>
     ELSE /\ log' = Append(log, Issued("updatePrice"))
          /\ editingPriceId' = FALSE
  /\ UNCHANGED << currentUser, loginState, showInvestmentForm, editingInvestment,
                  sellDialog, effectRan >>
  /\ UNCHANGED otherThanSession

\* Dashboard.handleDeleteInvestment, from the delete button of a row
HandleDeleteInvestment(confirmed) ==
  /\ currentUser # NoUser
  /\ ActionsRendered(currentUser)
  /\ Len(log) < MaxLog
  /\ log' = IF currentUser.isAdmin /\ confirmed
            THEN Append(log, Issued("deleteInvestment")) ELSE log
  /\ UNCHANGED << currentUser, loginState, dashboardState >>
  /\ UNCHANGED otherThanSession

\* click on the sell button of a row: setSellDialog({ open: true, investment })
OpenSellDialog ==
  /\ currentUser # NoUser
  /\ ActionsRendered(currentUser)
  /\ sellDialog' = TRUE
  /\ UNCHANGED << currentUser, loginState, showInvestmentForm, editingInvestment,
                  editingPriceId, effectRan, log >>
  /\ UNCHANGED otherThanSession

\* Dashboard.handleSellInvestment with a valid quantity and price, and the
\* onSuccess of the mutation
HandleSellInvestment ==
  /\ currentUser # NoUser
  /\ sellDialog
  /\ Len(log) < MaxLog
  /\ log' = Append(log, Issued("sellInvestment"))
  /\ sellDialog' = FALSE
  /\ UNCHANGED << currentUser, loginState, showInvestmentForm, editingInvestment,
                  editingPriceId, effectRan >>
  /\ UNCHANGED otherThanSession

SessionInit ==
  /\ requested = { EmptySymbol }
  /\ QuoteIdle
  /\ RefreshIdle
  /\ apiKey = TRUE
  /\ LimiterIdle
  /\ SearchIdle
  /\ StoreIdle
  /\ SessionIdle
  /\ KeyIdle
  /\ SuffixIdle
  /\ ClassifierIdle
  /\ VariantIdle
  /\ MergeIdle
  /\ BatchIdle

SessionNext ==
  \/ LoginAsAli
  \/ ShowPasswordPrompt
  \/ \E typed \in Passwords : TypePassword(typed)
  \/ VerifyPassword
  \/ Logout
  \/ PriceUpdatesEffect
  \/ ClickAdd
  \/ HandleEditInvestment
  \/ SubmitInvestmentForm
  \/ HandlePriceEdit
  \/ HandlePriceUpdate
  \/ \E confirmed \in BOOLEAN : HandleDeleteInvestment(confirmed)
  \/ OpenSellDialog
  \/ HandleSellInvestment

SessionSpec == SessionInit /\ [][SessionNext]_vars

\* ------------------------------------- resolution without credentials
\* the symbols resolved under a credential configuration
KeySymbols == { AAPL, zzL }

\* a network request: the adapter that issued it and the credential it carries
Fetch(adapter, credential) == [adapter |-> adapter, credential |-> credential]

\* getAlphaVantageQuote: process.env.ALPHA_VANTAGE_API_KEY || 'demo'
AlphaCredential(configured) == IF configured THEN "key" ELSE "demo"

\* where getQuote goes after an adapter returned q
KeyAfter(adapter, q) ==
  IF Accepts(adapter, q) THEN "done"
  ELSE IF NextAdapter(adapter) = "fallback" THEN "done"
  ELSE NextAdapter(adapter)

\* getQuote is called for a symbol that is not cached
KeyStart(symbol) ==
  /\ kpc = "idle"
  /\ kpc' = FirstAdapter
  /\ ksym' = symbol
  /\ kvi' = 1
  /\ UNCHANGED << alphaKey, kfetches, krets >>
  /\ UNCHANGED otherThanKey

\* ServerFinnhubService.getQuote: makeRequest for the variant kvi settles.
\* Without an API key makeRequest throws before it fetches.
KeyFinnhubVariant(out) ==
  /\ kpc = "finnhub"
  /\ LET variants == getSymbolVariants(ksym)
         result == IF apiKey THEN out ELSE [kind |-> "throw", c |-> Undefined]
         q == IF FinnhubAccepts(result) THEN FinnhubQuote(ksym, result)
              ELSE FinnhubZeroQuote(ksym)
     IN /\ kfetches' = IF apiKey THEN Append(kfetches, Fetch("finnhub", "key"))
                       ELSE kfetches
        /\ IF FinnhubAccepts(result) \/ kvi = Len(variants)
           THEN /\ krets' = Append(krets, q)
                /\ kpc' = KeyAfter("finnhub", q)
                /\ kvi' = 0
           ELSE /\ kvi' = kvi + 1
                /\ UNCHANGED << kpc, krets >>
  /\ UNCHANGED << alphaKey, ksym >>
  /\ UNCHANGED otherThanKey

\* MultiProviderService.getAlphaVantageQuote settles
KeyAlpha(out) ==
  /\ kpc = "alpha"
  /\ kfetches' = Append(kfetches, Fetch("alpha", AlphaCredential(alphaKey)))
  /\ LET q == getAlphaVantageQuote(ksym, out)
     IN /\ krets' = Append(krets, q)
        /\ kpc' = KeyAfter("alpha", q)
  /\ UNCHANGED << alphaKey, ksym, kvi >>
  /\ UNCHANGED otherThanKey

\* MultiProviderService.getYahooFinanceQuote settles
KeyYahoo(out) ==
  /\ kpc = "yahoo"
  /\ kfetches' = Append(kfetches, Fetch("yahoo", ""))
  /\ LET q == getYahooFinanceQuote(ksym, out)
     IN /\ krets' = Append(krets, q)
        /\ kpc' = KeyAfter("yahoo", q)
  /\ UNCHANGED << alphaKey, ksym, kvi >>
  /\ UNCHANGED otherThanKey

KeyInit ==
  /\ requested = { EmptySymbol }
  /\ QuoteIdle
  /\ RefreshIdle
  /\ apiKey \in BOOLEAN
  /\ LimiterIdle
  /\ SearchIdle
  /\ StoreIdle
  /\ SessionIdle
  /\ alphaKey \in BOOLEAN
  /\ KeyQuiet
  /\ SuffixIdle
  /\ ClassifierIdle
  /\ VariantIdle
  /\ MergeIdle
  /\ BatchIdle

KeyNext ==
  \/ \E symbol \in KeySymbols : KeyStart(symbol)
  \/ \E out \in FinnhubOutcomes : KeyFinnhubVariant(out)
  \/ \E out \in AlphaOutcomes : KeyAlpha(out)
  \/ \E out \in YahooOutcomes : KeyYahoo(out)

KeySpec == KeyInit /\ [][KeyNext]_vars

\* ------------------------------------------------------- suffix tables
\* ticker bases, in upper and in lower case
TickerBases == { << "V", "O", "D" >>, << "e", "n", "i" >> }

\* exchange suffixes: those of the exchange table, the alternative spellings
\* of the currency table, one that no table has, and none
TickerSuffixes ==
  { << >>,
    << ".", "L" >>, << ".", "P", "A" >>, << ".", "M", "I" >>, << ".", "D", "E" >>,
    << ".", "A", "S" >>,
    << ".", "L", "O", "N" >>, << ".", "P", "A", "R" >>, << ".", "M", "I", "L" >>,
    << ".", "E", "T", "R" >>, << ".", "A", "M", "S" >>,
    << ".", "S", "W" >> }

\* the symbols the tables are applied to
TickerSymbols ==
  { base \o suffix : base \in TickerBases, suffix \in TickerSuffixes } \cup
  { base \o ToLowerCase(suffix) : base \in TickerBases, suffix \in TickerSuffixes }

\* upperSymbol.endsWith(a) || upperSymbol.endsWith(b)
EndsWithEither(s, a, b) == EndsWith(s, a) \/ EndsWith(s, b)

\* ServerFinnhubService.getCurrencyFromSymbol
getCurrencyFromSymbol(symbol) ==
  LET upperSymbol == ToUpperCase(symbol)
  IN IF EndsWithEither(upperSymbol, << ".", "L" >>, << ".", "L", "O", "N" >>) THEN "GBP"
     ELSE IF EndsWithEither(upperSymbol, << ".", "P", "A" >>, << ".", "P", "A", "R" >>)
     THEN "EUR"
     ELSE IF EndsWithEither(upperSymbol, << ".", "M", "I" >>, << ".", "M", "I", "L" >>)
     THEN "EUR"
     ELSE IF EndsWithEither(upperSymbol, << ".", "D", "E" >>, << ".", "E", "T", "R" >>)
     THEN "EUR"
     ELSE IF EndsWithEither(upperSymbol, << ".", "A", "S" >>, << ".", "A", "M", "S" >>)
     THEN "EUR"
     ELSE "USD"

\* ServerFinnhubService.getExchangeFromSymbol
getExchangeFromSymbol(symbol) ==
  LET upperSymbol == ToUpperCase(symbol)
  IN IF EndsWith(upperSymbol, << ".", "L" >>) THEN "London Stock Exchange"
     ELSE IF EndsWith(upperSymbol, << ".", "P", "A" >>) THEN "Euronext Paris"
     ELSE IF EndsWith(upperSymbol, << ".", "M", "I" >>) THEN "Borsa Italiana"
     ELSE IF EndsWith(upperSymbol, << ".", "D", "E" >>) THEN "XETRA"
     ELSE IF EndsWith(upperSymbol, << ".", "A", "S" >>) THEN "Euronext Amsterdam"
     ELSE "NASDAQ"

\* MultiProviderService.getCurrencyFromSymbol
MultiProvider_getCurrencyFromSymbol(symbol) ==
  LET upperSymbol == ToUpperCase(symbol)
  IN IF EndsWithEither(upperSymbol, << ".", "L" >>, << ".", "L", "O", "N" >>) THEN "GBP"
     ELSE IF EndsWithEither(upperSymbol, << ".", "P", "A" >>, << ".", "P", "A", "R" >>)
     THEN "EUR"
     ELSE IF EndsWithEither(upperSymbol, << ".", "M", "I" >>, << ".", "M", "I", "L" >>)
     THEN "EUR"
     ELSE IF EndsWithEither(upperSymbol, << ".", "D", "E" >>, << ".", "E", "T", "R" >>)
     THEN "EUR"
     ELSE IF EndsWithEither(upperSymbol, << ".", "A", "S" >>, << ".", "A", "M", "S" >>)
     THEN "EUR"
     ELSE "USD"

\* MultiProviderService.getExchangeFromSymbol
MultiProvider_getExchangeFromSymbol(symbol) ==
  LET upperSymbol == ToUpperCase(symbol)
  IN IF EndsWith(upperSymbol, << ".", "L" >>) THEN "London Stock Exchange"
     ELSE IF EndsWith(upperSymbol, << ".", "P", "A" >>) THEN "Euronext Paris"
     ELSE IF EndsWith(upperSymbol, << ".", "M", "I" >>) THEN "Borsa Italiana"
     ELSE IF EndsWith(upperSymbol, << ".", "D", "E" >>) THEN "XETRA"
     ELSE IF EndsWith(upperSymbol, << ".", "A", "S" >>) THEN "Euronext Amsterdam"
     ELSE "NASDAQ"

\* the currency and exchange fields of a quote
Listing(currency, exchange) == [currency |-> currency, exchange |-> exchange]

\* the Finnhub adapter fills currency and exchange of a quote
FinnhubTables ==
  /\ sfxFinnhub = Null
  /\ sfxFinnhub' = Listing(getCurrencyFromSymbol(sfxSymbol), getExchangeFromSymbol(sfxSymbol))
  /\ UNCHANGED << sfxSymbol, sfxResolver >>
  /\ UNCHANGED otherThanSuffix

\* the resolver fills currency and exchange of a quote
ResolverTables ==
  /\ sfxResolver = Null
  /\ sfxResolver' = Listing(MultiProvider_getCurrencyFromSymbol(sfxSymbol),
                            MultiProvider_getExchangeFromSymbol(sfxSymbol))
  /\ UNCHANGED << sfxSymbol, sfxFinnhub >>
  /\ UNCHANGED otherThanSuffix

SuffixInit ==
  /\ requested = { EmptySymbol }
  /\ QuoteIdle
  /\ RefreshIdle
  /\ apiKey = TRUE
  /\ LimiterIdle
  /\ SearchIdle
  /\ StoreIdle
  /\ SessionIdle
  /\ KeyIdle
  /\ sfxSymbol \in TickerSymbols
  /\ sfxFinnhub = Null
  /\ sfxResolver = Null
  /\ ClassifierIdle
  /\ VariantIdle
  /\ MergeIdle
  /\ BatchIdle

SuffixNext ==
  \/ FinnhubTables
  \/ ResolverTables

SuffixSpec == SuffixInit /\ [][SuffixNext]_vars

\* ------------------------------------------------------ symbol classifiers
\* the symbols, descriptions and exchange names of the search results
ClassifiedSymbols ==
  { << "V", "W", "C", "E" >>,
    << "B", "T", "C", "-", "U", "S", "D" >>,
    << "A", "A", "P", "L" >>,
    << "I", "T", "0", "0", "0", "5", "4", "2", "2", "8", "9", "1" >>,
    << "B", "T", "C", "E", "T", "F" >>,
    << "v", "w", "c", "e" >> }

Descriptions ==
  { << "V", "a", "n", "g", "u", "a", "r", "d", " ", "F", "T", "S", "E", " ", "A", "l", "l", "-", "W", "o", "r", "l", "d", " ", "U", "C", "I", "T", "S", " ", "E", "T", "F" >>,
    << "B", "i", "t", "c", "o", "i", "n" >>,
    << "A", "p", "p", "l", "e", " ", "I", "n", "c", "." >>,
    << "B", "T", "P", " ", "2", "0", "3", "0" >> }

ExchangeNames ==
  { << "N", "A", "S", "D", "A", "Q" >>,
    << "B", "o", "n", "d", " ", "M", "a", "r", "k", "e", "t" >> }

Digits == { "0", "1", "2", "3", "4", "5", "6", "7", "8", "9" }

\* /^IT\d{10}$/.test(s)
MatchesItalianISIN(s) ==
  /\ Len(s) = 12
  /\ s[1] = "I" /\ s[2] = "T"
  /\ \A i \in 3..12 : s[i] \in Digits

\* determineSecurityType of real-time-status.tsx
determineSecurityType(exchange, symbol) ==
  LET exchangeUpper == ToUpperCase(exchange)
      symbolUpper == ToUpperCase(symbol)
  IN IF \/ Includes(symbolUpper, << "E", "T", "F" >>)
        \/ EndsWith(symbolUpper, << ".", "L" >>)
        \/ Includes(symbolUpper, << "S", "P", "Y" >>)
        \/ Includes(symbolUpper, << "V", "O", "O" >>)
        \/ Includes(symbolUpper, << "Q", "Q", "Q" >>)
        \/ Includes(symbolUpper, << "I", "W", "D", "A" >>)
        \/ Includes(symbolUpper, << "V", "W", "C", "E" >>)
     THEN "etf"
     ELSE IF \/ Includes(exchangeUpper, << "B", "O", "N", "D" >>)
             \/ Includes(symbolUpper, << "B", "T", "P" >>)
             \/ Includes(symbolUpper, << "T", "R", "E", "A", "S", "U", "R", "Y" >>)
             \/ MatchesItalianISIN(symbolUpper)
     THEN "bond"
     ELSE IF \/ Includes(symbolUpper, << "-", "E", "U", "R" >>)
             \/ Includes(symbolUpper, << "-", "U", "S", "D" >>)
             \/ Includes(symbolUpper, << "B", "T", "C" >>)
             \/ Includes(symbolUpper, << "E", "T", "H" >>)
             \/ Includes(exchangeUpper, << "C", "R", "Y", "P", "T", "O" >>)
     THEN "crypto"
     ELSE "stock"

\* ServerFinnhubService.searchSymbol classifies the result
ServerClassifies ==
  /\ clsServer = ""
  /\ clsServer' = categorizeSymbol(clsSymbol, clsDescription)
  /\ UNCHANGED << clsSymbol, clsDescription, clsExchange, clsClient >>
  /\ UNCHANGED otherThanClassifier

\* the search box of the dashboard classifies the result
ClientClassifies ==
  /\ clsClient = ""
  /\ clsClient' = determineSecurityType(clsExchange, clsSymbol)
  /\ UNCHANGED << clsSymbol, clsDescription, clsExchange, clsServer >>
  /\ UNCHANGED otherThanClassifier

ClassifierInit ==
  /\ requested = { EmptySymbol }
  /\ QuoteIdle
  /\ RefreshIdle
  /\ apiKey = TRUE
  /\ LimiterIdle
  /\ SearchIdle
  /\ StoreIdle
  /\ SessionIdle
  /\ KeyIdle
  /\ SuffixIdle
  /\ clsSymbol \in ClassifiedSymbols
  /\ clsDescription \in Descriptions
  /\ clsExchange \in ExchangeNames
  /\ clsServer = ""
  /\ clsClient = ""
  /\ VariantIdle
  /\ MergeIdle
  /\ BatchIdle

ClassifierNext ==
  \/ ServerClassifies
  \/ ClientClassifies

ClassifierSpec == ClassifierInit /\ [][ClassifierNext]_vars

\* ------------------------------------- ServerFinnhubService.getQuote
\* the symbols getQuote is called with: without a suffix, with the suffixes
\* .l and .MI, and with a dot before the suffix
VariantSymbols ==
  { AAPL, zzL, << "e", "n", "i", ".", "M", "I" >>, << "b", "t", ".", "a", ".", "l" >> }

\* getQuote(symbol) is called and requests the first variant
VariantStart(symbol) ==
  /\ vpc = "idle"
  /\ vpc' = "trying"
  /\ vsym' = symbol
  /\ vtried' = << getSymbolVariants(symbol)[1] >>
  /\ UNCHANGED << vouts, vresult >>
  /\ UNCHANGED otherThanVariant

\* the makeRequest of the variant requested last settles
VariantSettles(out) ==
  /\ vpc = "trying"
  /\ vouts' = Append(vouts, out)
  /\ LET variants == getSymbolVariants(vsym)
     IN IF FinnhubAccepts(out)
        THEN /\ vresult' = FinnhubQuote(vsym, out)
             /\ vpc' = "done"
             /\ UNCHANGED vtried
        ELSE IF Len(vtried) < Len(variants)
        THEN /\ vtried' = Append(vtried, variants[Len(vtried) + 1])
             /\ UNCHANGED << vpc, vresult >>
        ELSE /\ vresult' = FinnhubZeroQuote(vsym)
             /\ vpc' = "done"
             /\ UNCHANGED vtried
  /\ UNCHANGED vsym
  /\ UNCHANGED otherThanVariant

VariantInit ==
  /\ requested = { EmptySymbol }
  /\ QuoteIdle
  /\ RefreshIdle
  /\ apiKey = TRUE
  /\ LimiterIdle
  /\ SearchIdle
  /\ StoreIdle
  /\ SessionIdle
  /\ KeyIdle
  /\ SuffixIdle
  /\ ClassifierIdle
  /\ VariantIdle
  /\ MergeIdle
  /\ BatchIdle

VariantNext ==
  \/ \E symbol \in VariantSymbols : VariantStart(symbol)
  \/ \E out \in FinnhubOutcomes : VariantSettles(out)

VariantSpec == VariantInit /\ [][VariantNext]_vars

\* --------------------------- ServerFinnhubService.searchSymbol, merging
\* the queries searchSymbol is called with
MergeQueries == { << "b", "t", "c" >>, << "Q" >>, << "a", "p" >> }

\* a result of /search with a symbol listed twice, once under its
\* displaySymbol, and an item without a symbol
StocksWithDuplicate ==
  << [symbol |-> << "B", "T", "C" >>, displaySymbol |-> << >>, description |-> << "B", "i", "t", "c", "o", "i", "n", " ", "T", "r", "u", "s", "t" >>],
     [symbol |-> << "G", "B", "T", "C" >>, displaySymbol |-> << "B", "T", "C" >>, description |-> << "G", "r", "a", "y", "s", "c", "a", "l", "e" >>],
     [symbol |-> << "A", "A", "P", "L" >>, displaySymbol |-> << >>, description |-> << "A", "p", "p", "l", "e" >>],
     [symbol |-> << >>, displaySymbol |-> << >>, description |-> << "x" >>] >>

\* a result of /search with sixteen items: Q, QQ, QQQ, ...
SixteenStocks ==
  [i \in 1..16 |->
     [symbol |-> [j \in 1..i |-> "Q"], displaySymbol |-> << >>, description |-> << "q" >>]]

\* a symbol list of /crypto/symbol with seven symbols that match btc, one
\* of them listed by /search as well, and one listed twice
CryptoWithDuplicate ==
  << [symbol |-> << "E", "T", "H", "B", "T", "C" >>, description |-> << "E", "t", "h", "e", "r" >>],
     [symbol |-> << "B", "T", "C" >>, description |-> << "B", "i", "t", "c", "o", "i", "n" >>],
     [symbol |-> << "L", "T", "C", "B", "T", "C" >>, description |-> << "L", "i", "t", "e", "c", "o", "i", "n" >>],
     [symbol |-> << "B", "T", "C" >>, description |-> << "B", "i", "t", "c", "o", "i", "n", " ", "a", "g", "a", "i", "n" >>],
     [symbol |-> << "X", "R", "P", "B", "T", "C" >>, description |-> << "R", "i", "p", "p", "l", "e" >>],
     [symbol |-> << "B", "N", "B", "B", "T", "C" >>, description |-> << "B", "i", "n", "a", "n", "c", "e", " ", "C", "o", "i", "n" >>],
     [symbol |-> << "A", "D", "A", "B", "T", "C" >>, description |-> << "C", "a", "r", "d", "a", "n", "o" >>] >>

\* a symbol list of /crypto/symbol with a symbol of SixteenStocks, and an
\* item without a description
CryptoOfQ ==
  << [symbol |-> << "Q", "Q" >>, description |-> << "q", " ", "c", "o", "i", "n" >>],
     [symbol |-> << "Q", "X" >>, description |-> << >>] >>

\* how makeRequest('/search') can settle
StockOutcomes ==
  { [kind |-> "throw", hasResult |-> FALSE, result |-> << >>],
    [kind |-> "json", hasResult |-> FALSE, result |-> << >>],
    [kind |-> "json", hasResult |-> TRUE, result |-> << >>],
    [kind |-> "json", hasResult |-> TRUE, result |-> StocksWithDuplicate],
    [kind |-> "json", hasResult |-> TRUE, result |-> SixteenStocks] }

\* how makeRequest('/crypto/symbol') can settle
CryptoOutcomes ==
  { [kind |-> "throw", isArray |-> FALSE, data |-> << >>],
    [kind |-> "json", isArray |-> FALSE, data |-> << >>],
    [kind |-> "json", isArray |-> TRUE, data |-> << >>],
    [kind |-> "json", isArray |-> TRUE, data |-> CryptoWithDuplicate],
    [kind |-> "json", isArray |-> TRUE, data |-> CryptoOfQ] }

\* categorizeSymbol of the merging version
categorizeSymbolMerging(symbol, description) ==
  LET symbolUpper == ToUpperCase(symbol)
      descUpper == ToUpperCase(description)
  IN IF \/ Includes(descUpper, << "E", "T", "F" >>)
        \/ Includes(descUpper, << "F", "U", "N", "D" >>)
        \/ Includes(descUpper, << "I", "N", "D", "E", "X" >>)
        \/ Includes(symbolUpper, << "E", "T", "F" >>)
     THEN "ETF"
     ELSE IF \/ Includes(symbolUpper, << "U", "S", "D" >>)
             \/ Includes(symbolUpper, << "B", "T", "C" >>)
             \/ Includes(symbolUpper, << "E", "T", "H" >>)
             \/ EndsWith(symbolUpper, << "U", "S", "D", "T" >>)
     THEN "Crypto"
     ELSE "Common Stock"

\* an entry of the merged result
MergedEntry(symbol, name, exchangeShortName, type) ==
  [symbol |-> symbol, name |-> name, exchangeShortName |-> exchangeShortName, type |-> type]

\* the entry an item of /search is mapped to
StockEntry(item) ==
  MergedEntry(IF item.displaySymbol # << >> THEN item.displaySymbol ELSE item.symbol,
              item.description, << >>,
              categorizeSymbolMerging(item.symbol, item.description))

\* the entries of the stock lookup: none if it was rejected or has no result
StockEntries(out) ==
  IF out.kind = "throw" \/ ~out.hasResult THEN << >>
  ELSE LET kept == SelectSeq(out.result, KeepItem)
       IN [i \in 1..Len(kept) |-> StockEntry(kept[i])]

\* .slice(0, 5)
Slice5(list) == SubSeq(list, 1, IF Len(list) < 5 THEN Len(list) ELSE 5)

\* the entry a crypto symbol is mapped to
CryptoEntry(crypto) ==
  MergedEntry(crypto.symbol,
              IF crypto.description # << >> THEN crypto.description ELSE crypto.symbol,
              << "B", "I", "N", "A", "N", "C", "E" >>, "Crypto")

\* searchCrypto: the first five symbols matching the query; none if the
\* request was rejected or its body is not an array
searchCrypto(query, out) ==
  IF out.kind = "throw" \/ ~out.isArray THEN << >>
  ELSE LET q == ToLowerCase(query)
           Matches(crypto) == \/ Includes(ToLowerCase(crypto.symbol), q)
                              \/ Includes(ToLowerCase(crypto.description), q)
           matches == Slice5(SelectSeq(out.data, Matches))
       IN [i \in 1..Len(matches) |-> CryptoEntry(matches[i])]

\* self.findIndex(t => t.symbol === item.symbol)
FirstWithSymbol(list, symbol) ==
  CHOOSE i \in 1..Len(list) :
    list[i].symbol = symbol /\ \A j \in 1..(i - 1) : list[j].symbol # symbol

RECURSIVE UniqueFrom_KeepsLast(_, _)
UniqueFrom_KeepsLast(list, i) ==
  IF i > Len(list) THEN << >>
  ELSE (IF \A j \in (i + 1)..Len(list) : list[j].symbol # list[i].symbol
        THEN << list[i] >> ELSE << >>)
       \o UniqueFrom_KeepsLast(list, i + 1)

\* allResults.filter((item, index, self) => index === self.findIndex(...)),
\* from index i on
RECURSIVE UniqueFrom(_, _)
UniqueFrom(list, i) ==
  IF i > Len(list) THEN << >>
  ELSE (IF i = FirstWithSymbol(list, list[i].symbol) THEN << list[i] >> ELSE << >>)
       \o UniqueFrom(list, i + 1)

\* what searchSymbol returns once both lookups have settled
mergedSearch(query, stockOut, cryptoOut) ==
  Slice15(UniqueFrom(StockEntries(stockOut) \o searchCrypto(query, cryptoOut), 1))

\* searchSymbol(query) is called and starts both lookups
MergedSearchStart(query) ==
  /\ msPc = "idle"
  /\ msPc' = "pending"
  /\ msQuery' = query
  /\ UNCHANGED << msStock, msCrypto, msResult >>
  /\ UNCHANGED otherThanMerge

\* makeRequest('/search') settles; searchSymbol returns if searchCrypto has
\* settled
StockLookupSettles(out) ==
  /\ msPc = "pending"
  /\ msStock = Null
  /\ msStock' = out
  /\ IF msCrypto # Null
     THEN msPc' = "done" /\ msResult' = mergedSearch(msQuery, out, msCrypto)
     ELSE UNCHANGED << msPc, msResult >>
  /\ UNCHANGED << msQuery, msCrypto >>
  /\ UNCHANGED otherThanMerge

\* searchCrypto settles; searchSymbol returns if makeRequest('/search') has
\* settled
CryptoLookupSettles(out) ==
  /\ msPc = "pending"
  /\ msCrypto = Null
  /\ msCrypto' = out
  /\ IF msStock # Null
     THEN msPc' = "done" /\ msResult' = mergedSearch(msQuery, msStock, out)
     ELSE UNCHANGED << msPc, msResult >>
  /\ UNCHANGED << msQuery, msStock >>
  /\ UNCHANGED otherThanMerge

MergeInit ==
  /\ requested = { EmptySymbol }
  /\ QuoteIdle
  /\ RefreshIdle
  /\ apiKey = TRUE
  /\ LimiterIdle
  /\ SearchIdle
  /\ StoreIdle
  /\ SessionIdle
  /\ KeyIdle
  /\ SuffixIdle
  /\ ClassifierIdle
  /\ VariantIdle
  /\ MergeIdle
  /\ BatchIdle

MergeNext ==
  \/ \E query \in MergeQueries : MergedSearchStart(query)
  \/ \E out \in StockOutcomes : StockLookupSettles(out)
  \/ \E out \in CryptoOutcomes : CryptoLookupSettles(out)

MergeSpec == MergeInit /\ [][MergeNext]_vars

\* ------------------ FinnhubService.getMultipleQuotes, batchUpdatePrices
\* the symbols arguments of a batch: prices are in cents
BatchSymbols ==
  { << >>, << "AAPL", "XXXX" >>, << "AAPL", "AAPL" >>, << "XXXX", "AAPL", "TSLA" >> }

\* how the request of the client's getQuote to /api/finnhub/quote/:symbol
\* can settle: fetch rejected, a status that is not ok, a live quote, and
\* the zero-price placeholder the route sends when all adapters failed
ProxyOutcomes ==
  { [kind |-> "reject", price |-> 0, provider |-> ""],
    [kind |-> "status", price |-> 0, provider |-> ""],
    [kind |-> "json", price |-> 18230, provider |-> FinnhubTag],
    [kind |-> "json", price |-> 0, provider |-> FallbackTag] }

\* how fetchWithCache of getYahooQuote can settle: no data, a chart result
\* with a price, and a chart result whose regularMarketPrice and
\* previousClose are both 0
ChartOutcomes ==
  { [kind |-> "none", price |-> 0, provider |-> ""],
    [kind |-> "json", price |-> 18100, provider |-> YahooTag],
    [kind |-> "json", price |-> 0, provider |-> YahooTag] }

\* (Math.random() - 0.5) * 0.04, in percent
MockVariations == { -2, 0, 2 }

\* FinnhubService.getQuote: the body of an ok response, null otherwise
BatchGetQuote(symbol, out) ==
  IF out.kind = "json"
  THEN [symbol |-> symbol, price |-> out.price, provider |-> out.provider]
  ELSE Null

\* FinancialDataService.getBasePriceForSymbol, in cents
getBasePriceForSymbol(symbol) ==
  CASE symbol = "AAPL" -> 18230
    [] symbol = "TSLA" -> 24550
    [] OTHER           -> 10000

\* FinancialDataService.getMockQuote
getMockQuote(symbol, variation) ==
  [symbol |-> symbol,
   price |-> getBasePriceForSymbol(symbol) + (getBasePriceForSymbol(symbol) * variation) \div 100,
   provider |-> "mock"]

\* FinancialDataService.getRealTimeQuote: the Yahoo quote, else the mock
getRealTimeQuote(symbol, out, variation) ==
  IF out.kind = "json"
  THEN [symbol |-> symbol, price |-> out.price, provider |-> out.provider]
  ELSE getMockQuote(symbol, variation)

\* results.filter(quote => quote !== null)
RECURSIVE NotNull(_)
NotNull(results) ==
  IF results = << >> THEN << >>
  ELSE (IF Head(results) # Null THEN << Head(results) >> ELSE << >>) \o NotNull(Tail(results))

\* every promise of the batch has settled
AllSettled(outs) == \A i \in 1..Len(outs) : outs[i] # Null

\* getMultipleQuotes(symbols) or batchUpdatePrices(symbols) is called and
\* starts one request per symbol; an empty batch returns at once
BatchStart(fn, symbols) ==
  /\ btPc = "idle"
  /\ btFn' = fn
  /\ btSymbols' = symbols
  /\ btOuts' = [i \in 1..Len(symbols) |-> Null]
  /\ btQuotes' = [i \in 1..Len(symbols) |-> Null]
  /\ btPc' = IF symbols = << >> THEN "done" ELSE "pending"
  /\ UNCHANGED << btResult, btPrices >>
  /\ UNCHANGED otherThanBatch

\* the request of position i of getMultipleQuotes settles; when it is the
\* last one, Promise.all resolves and the non-null quotes are returned
GetQuoteSettles(i, out) ==
  /\ btPc = "pending"
  /\ btFn = "getMultipleQuotes"
  /\ i \in 1..Len(btSymbols)
  /\ btOuts[i] = Null
  /\ btOuts' = [btOuts EXCEPT ![i] = out]
  /\ btQuotes' = [btQuotes EXCEPT ![i] = BatchGetQuote(btSymbols[i], out)]
  /\ IF AllSettled(btOuts')
     THEN btPc' = "done" /\ btResult' = NotNull(btQuotes')
     ELSE UNCHANGED << btPc, btResult >>
  /\ UNCHANGED << btFn, btSymbols, btPrices >>
  /\ UNCHANGED otherThanBatch

\* the getRealTimeQuote of position i of batchUpdatePrices settles and its
\* price, if positive, is set in the Map; when it is the last one,
\* Promise.all resolves and the Map is returned
RealTimeQuoteSettles(i, out, variation) ==
  /\ btPc = "pending"
  /\ btFn = "batchUpdatePrices"
  /\ i \in 1..Len(btSymbols)
  /\ btOuts[i] = Null
  /\ btOuts' = [btOuts EXCEPT ![i] = out]
  /\ LET quote == getRealTimeQuote(btSymbols[i], out, variation)
     IN /\ btQuotes' = [btQuotes EXCEPT ![i] = quote]
        /\ btPrices' = IF quote.price > 0
                       THEN MapSet(btPrices, btSymbols[i], quote.price)
                       ELSE btPrices
  /\ btPc' = IF AllSettled(btOuts') THEN "done" ELSE "pending"
  /\ UNCHANGED << btFn, btSymbols, btResult >>
  /\ UNCHANGED otherThanBatch

BatchInit ==
  /\ requested = { EmptySymbol }
  /\ QuoteIdle
  /\ RefreshIdle
  /\ apiKey = TRUE
  /\ LimiterIdle
  /\ SearchIdle
  /\ StoreIdle
  /\ SessionIdle
  /\ KeyIdle
  /\ SuffixIdle
  /\ ClassifierIdle
  /\ VariantIdle
  /\ MergeIdle
  /\ BatchIdle

BatchNext ==
  \/ \E fn \in { "getMultipleQuotes", "batchUpdatePrices" }, symbols \in BatchSymbols :
       BatchStart(fn, symbols)
  \/ \E i \in 1..3, out \in ProxyOutcomes : GetQuoteSettles(i, out)
  \/ \E i \in 1..3, out \in ChartOutcomes, variation \in MockVariations :
       RealTimeQuoteSettles(i, out, variation)

BatchSpec == BatchInit /\ [][BatchNext]_vars

\* ------------------------------------------- the two proxy routes together
\* GET /api/finnhub/quote/:symbol and GET /api/finnhub/search of one
\* server.  The quote requests are for a symbol or malformed, or are all
\* malformed; in the latter behaviours the search route is exercised too.
RoutesInit ==
  /\ requested \in { { zzL, EmptySymbol }, { EmptySymbol } }
  /\ QuoteIdle
  /\ RefreshIdle
  /\ apiKey = TRUE
  /\ LimiterIdle
  /\ SearchIdle
  /\ StoreIdle
  /\ SessionIdle
  /\ KeyIdle
  /\ SuffixIdle
  /\ ClassifierIdle
  /\ VariantIdle
  /\ MergeIdle
  /\ BatchIdle

RoutesNext ==
  \/ Next
  \/ requested = { EmptySymbol } /\ SearchNext

RoutesSpec == RoutesInit /\ [][RoutesNext]_vars

\* ================================================================ claims
\* the response answers a getQuote call
ViaGetQuote(how) == how \in { "cache", "adapter", "fallback" }

\* the response is the outcome of trying adapters
ViaAdapters(how) == how \in { "adapter", "fallback" }

\* an adapter handed getQuote an explicit failure: null or an error note
Failed(ret) == ret = Null \/ ret.error # ""

\* an adapter handed getQuote a quote with a price above zero
Succeeded(ret) == ret # Null /\ ret.error = "" /\ GT0(ret.price)

TagOrder == << FinnhubTag, AlphaTag, YahooTag >>

\* request r leaves the prober on the online branch in this step
OnlineCall(r) ==
  /\ pc[r] = "probe"
  /\ \/ pc'[r] = FirstAdapter
     \/ pc'[r] = "idle" /\ sent'.online = "yes"

\* C1: no response is a quote with price <= 0 and no error note (and no
\* request ends in an exception instead of a response)
C1_NoSilentZeroPrice ==
  /\ sent.status \in { 0, 200, 400, 404 }
  /\ sent.status = 200 => (LE0(sent.body.price) => sent.body.error # "")

\* C2: a request the prober answered offline invoked no adapter, and its
\* data, if any, was built by the Offline Quote Source
C2_OfflineUsesOnlyOfflineSource ==
  sent.online = "no" =>
    /\ sent.calls = << >>
    /\ sent.rets = << >>
    /\ sent.status \in { 200, 404 }
    /\ sent.status = 200 =>
         sent.body.origin = "offline" /\ sent.body.provider = OfflineTag

W_C2_OfflineAnswer ==
  /\ sent.online = "no"
  /\ sent.status = 200
  /\ sent.body.origin = "offline"

\* C3: adapters are invoked in the order Finnhub, Alpha Vantage, Yahoo
\* Finance, and when the adapters before B failed and B succeeded the
\* response is B's quote under B's provider tag
C3_FallbackOrder ==
  /\ \A r \in Requests : calls[r] = SubSeq(AdapterOrder, 1, Len(calls[r]))
  /\ ViaAdapters(sent.how) =>
       /\ sent.calls = SubSeq(AdapterOrder, 1, Len(sent.rets))
       /\ \A j \in 1..Len(sent.rets) :
            (Succeeded(sent.rets[j]) /\ \A i \in 1..(j - 1) : Failed(sent.rets[i]))
              => /\ j = Len(sent.rets)
                 /\ sent.body = [sent.rets[j] EXCEPT !.provider = TagOrder[j]]

W_C3_LaterAdapterAnswers ==
  /\ sent.how = "adapter"
  /\ Len(sent.rets) = 3
  /\ Failed(sent.rets[1])
  /\ Failed(sent.rets[2])
  /\ Succeeded(sent.rets[3])

\* C4: a quote with price > 0 from an adapter ends the resolution; from
\* the first adapter, the response has price > 0, the tag Finnhub, and no
\* other adapter was invoked
C4_ShortCircuit ==
  ViaAdapters(sent.how) =>
    /\ \A j \in 1..Len(sent.rets) : Succeeded(sent.rets[j]) => j = Len(sent.rets)
    /\ Succeeded(sent.rets[1]) =>
         /\ sent.status = 200
         /\ GT0(sent.body.price)
         /\ sent.body.provider = FinnhubTag
         /\ sent.calls = << "finnhub" >>

W_C4_FirstAdapterAnswers ==
  /\ sent.how = "adapter"
  /\ Succeeded(sent.rets[1])
  /\ sent.calls = << "finnhub" >>

\* C5: a failure of one adapter does not end the resolution: after every
\* failed adapter but the last the next one was invoked, and the
\* placeholder is returned only after all three
C5_FaultIsolated ==
  ViaAdapters(sent.how) =>
    /\ sent.status = 200
    /\ Len(sent.calls) = Len(sent.rets)
    /\ \A i \in 1..Len(sent.rets) :
         (Failed(sent.rets[i]) /\ i < Len(AdapterOrder))
           => Len(sent.calls) > i /\ sent.calls[i + 1] = AdapterOrder[i + 1]
    /\ sent.how = "fallback" => Len(sent.calls) = Len(AdapterOrder)

W_C5_AllFailed ==
  /\ sent.how = "fallback"
  /\ Len(sent.rets) = 3
  /\ \A i \in 1..3 : Failed(sent.rets[i])

\* C6 as stated: a getQuote call for S less than the TTL after the previous
\* getQuote call for S returned, whatever that one returned, invokes no
\* adapter and returns the same data
C6_SecondCallSameData ==
  [][\A r \in Requests :
       ( /\ OnlineCall(r)
         /\ ViaGetQuote(sent.how)
         /\ sent.sym = sym[r]
         /\ now - sent.at < cacheTimeout )
       => ( /\ pc'[r] = "idle"
            /\ sent'.calls = << >>
            /\ sent'.body = sent.body )]_vars

\* C6 amended: the same, when the previous call returned a quote it had
\* obtained from an adapter
C6_SecondCallAfterAdapterQuote ==
  [][\A r \in Requests :
       ( /\ OnlineCall(r)
         /\ sent.how = "adapter"
         /\ sent.sym = sym[r]
         /\ now - sent.at < cacheTimeout )
       => ( /\ pc'[r] = "idle"
            /\ sent'.calls = << >>
            /\ sent'.body = sent.body )]_vars

W_C6_SecondCallHit ==
  /\ sent.how = "cache"
  /\ sent.prevHow = "adapter"
  /\ sent.prevSym = sent.sym
  /\ sent.calls = << >>

\* C7: a getQuote call that finds an entry of age >= TTL does not answer
\* from the cache but invokes the adapters, and when one of them answers
\* the entry is replaced by that answer
C7_ExpiredIsMiss ==
  /\ \A r \in Requests : found[r] = "expired" => calls[r] # << >>
  /\ sent.found = "expired" =>
       /\ ViaAdapters(sent.how)
       /\ sent.calls # << >>
       /\ sent.how = "adapter" =>
            cache[ToUpperCase(sent.sym)].data = sent.body

W_C7_ExpiredReplaced ==
  /\ sent.found = "expired"
  /\ sent.how = "adapter"

\* C8: a getQuote call for a symbol that differs only in letter case from
\* the symbol of the adapter quote returned less than the TTL before
\* answers from that entry and invokes no adapter
C8_CaseInsensitiveKey ==
  [][\A r \in Requests :
       ( /\ OnlineCall(r)
         /\ sent.how = "adapter"
         /\ sent.sym # sym[r]
         /\ ToUpperCase(sent.sym) = ToUpperCase(sym[r])
         /\ now - sent.at < cacheTimeout )
       => ( /\ pc'[r] = "idle"
            /\ sent'.how = "cache"
            /\ sent'.calls = << >>
            /\ sent'.body = sent.body )]_vars

W_C8_OtherCaseHit ==
  /\ sent.how = "cache"
  /\ sent.prevHow = "adapter"
  /\ sent.prevSym # sent.sym
  /\ ToUpperCase(sent.prevSym) = ToUpperCase(sent.sym)

\* C9: when a quote obtained from an adapter is returned, the cache holds
\* that quote under the uppercased symbol, stamped with the time of return
C9_CachedBeforeReturn ==
  sent.how = "adapter" =>
    cache[ToUpperCase(sent.sym)] = [data |-> sent.body, timestamp |-> sent.at]

W_C9_AdapterQuoteReturned ==
  /\ sent.how = "adapter"
  /\ cache[ToUpperCase(sent.sym)] # NoEntry
  /\ sent.at > 0

\* C10: online, all three adapters failed and the offline table has the
\* symbol: the response is the offline quote with an error note
C10_OfflineDataWhenAllFail ==
  ( /\ sent.online = "yes"
    /\ Len(sent.rets) = 3
    /\ \A i \in 1..3 : Failed(sent.rets[i])
    /\ ToUpperCase(sent.sym) \in OfflineSymbols )
  => ( /\ sent.status = 200
       /\ sent.body.origin = "offline"
       /\ sent.body.error # "" )

\* the request behind the latest response found the symbol nowhere: the
\* offline table lacks it, and the prober answered offline or all three
\* adapters handed getQuote an explicit failure
UnknownEverywhere ==
  /\ sent.status # 0
  /\ ~BadRequest(sent.sym)
  /\ ToUpperCase(sent.sym) \notin OfflineSymbols
  /\ \/ sent.online = "no"
     \/ /\ sent.online = "yes"
        /\ Len(sent.rets) = Len(AdapterOrder)
        /\ \A i \in 1..Len(sent.rets) : Failed(sent.rets[i])

\* C11: a symbol unknown to every adapter and to the offline table is
\* answered, online and offline alike, with status 200 and a quote-shaped
\* body whose price is not above zero and whose error note is not empty,
\* never with a body-less 404 or 500
C11_UnknownSymbolGetsErrorNote ==
  UnknownEverywhere =>
    /\ sent.status = 200
    /\ sent.body # NoBody
    /\ ~GT0(sent.body.price)
    /\ sent.body.error # ""

\* C12: no adapter hands getQuote a quote with price 0 as if it were
\* valid: every non-null adapter result with price 0 carries an error note
C12_NoAdapterHandsOverZeroPrice ==
  /\ \A j \in 1..Len(sent.rets) :
       (sent.rets[j] # Null /\ sent.rets[j].price = Num(0)) => sent.rets[j].error # ""
  /\ \A r \in Requests : \A j \in 1..Len(rets[r]) :
       (rets[r][j] # Null /\ rets[r][j].price = Num(0)) => rets[r][j].error # ""

\* C13: at most one batch price resolution is in flight at any time, in
\* RealTimePriceService and in PriceService
C13_AtMostOneBatchInFlight ==
  /\ inFlight <= 1
  /\ psInFlight <= 1

\* C14: once the dashboard is unmounted (no effect is mounted and its
\* cleanup has run) no refresh timer is pending
C14_NoTimerAfterUnmount ==
  (mounts > 0 /\ mounted = 0) => timers = {}

\* the fetches issued so far: the call and the position among its fetches
Fetches == { << m, i >> : m \in LimiterCalls, i \in 1..2 } \cap
           { f \in LimiterCalls \X (1..2) : f[2] <= Len(sentAt[f[1]]) }

\* C15: no two fetches of the adapter instance are issued less than
\* minRequestInterval apart
C15_MinimumSpacing ==
  \A f \in Fetches, g \in Fetches :
    f # g =>
      \/ sentAt[f[1]][f[2]] - sentAt[g[1]][g[2]] >= minRequestInterval
      \/ sentAt[g[1]][g[2]] - sentAt[f[1]][f[2]] >= minRequestInterval

\* C16: one makeRequest issues at most two fetches, the second only after
\* a 429 on the first and not before the backoff has elapsed, and a retry
\* response that is not OK (a second 429 included) makes the call fail
C16_RetryOnceThenGiveUp ==
  \A m \in LimiterCalls :
    /\ Len(sentAt[m]) <= 2
    /\ Len(sentAt[m]) = 2 =>
         /\ seen[m][1] = 429
         /\ sentAt[m][2] >= sentAt[m][1] + retryDelay
    /\ (Len(seen[m]) = 2 /\ ~Ok(seen[m][2])) => mpc[m] = "rejected"

W_C16_SecondTooManyRequests ==
  \E m \in LimiterCalls :
    /\ seen[m] = << 429, 429 >>
    /\ mpc[m] = "rejected"

\* the adapter that built a quote carrying a live provider's tag
OriginOf(tag) ==
  CASE tag = FinnhubTag -> "finnhub"
    [] tag = AlphaTag   -> "alpha"
    [] tag = YahooTag   -> "yahoo"
    [] OTHER            -> "none"

LiveTags == { FinnhubTag, AlphaTag, YahooTag }

\* a quote's tag agrees with the component that built it
TagMatchesOrigin(q) ==
  /\ q.origin = "offline" => q.provider = OfflineTag
  /\ q.provider \in LiveTags => q.origin = OriginOf(q.provider)

\* C17: every quote served from the Offline Quote Source carries the tag
\* "Offline Data", and every quote tagged Finnhub, Alpha Vantage or Yahoo
\* Finance, served or cached, was built by that adapter
C17_TagsTellTheSource ==
  /\ sent.status = 200 => TagMatchesOrigin(sent.body)
  /\ \A k \in Keys : cache[k] # NoEntry => TagMatchesOrigin(cache[k].data)

W_C17_OfflineBesideLiveEntry ==
  /\ sent.status = 200
  /\ sent.body.origin = "offline"
  /\ sent.body.provider = OfflineTag
  /\ cache[ToUpperCase(sent.sym)] # NoEntry
  /\ cache[ToUpperCase(sent.sym)].data.provider \in LiveTags

\* C18: when all adapters failed for S and the cache holds an expired entry
\* for S, the response is the stale quote of that entry
C18_StaleCachePreferred ==
  ( /\ sent.found = "expired"
    /\ Len(sent.rets) = Len(AdapterOrder)
    /\ \A i \in 1..Len(sent.rets) : Failed(sent.rets[i])
    /\ cache[ToUpperCase(sent.sym)] # NoEntry
    /\ sent.at - cache[ToUpperCase(sent.sym)].timestamp >= cacheTimeout )
  => sent.body = cache[ToUpperCase(sent.sym)].data

C19_SearchIncludesOfflineMatches ==
  ( /\ searchSent.status = 200
    /\ \/ searchSent.online = "no"
       \/ searchSent.called /\ searchSent.returned = << >> )
  => \A i \in 1..Len(searchSymbolOffline(searchSent.query)) :
       \E j \in 1..Len(searchSent.body) :
         searchSent.body[j].symbol = searchSymbolOffline(searchSent.query)[i].symbol

\* C21: after any sequence of store operations every investment stored in
\* MemStorage has a quantity of at least zero
C21_QuantityNeverNegative ==
  \A k \in DOMAIN investments : investments[k].quantity >= 0

\* C22: after any sequence of store operations each investment of MemStorage
\* carries the key it is stored under as its id, and no two investments of
\* MemStorage or of LocalStorageService share an id
C22_IdsUniqueAndKeyed ==
  /\ \A k \in DOMAIN investments : investments[k].id = k
  /\ \A k, l \in DOMAIN investments : k # l => investments[k].id # investments[l].id
  /\ \A i, j \in 1..Len(lsInvestments) :
       i # j => lsInvestments[i].id # lsInvestments[j].id

\* the array now holds every element of the array before, in the same order,
\* behind the elements added
KeepsAll(before, after) ==
  /\ Len(after) >= Len(before)
  /\ SubSeq(after, Len(after) - Len(before) + 1, Len(after)) = before

\* C23: no store operation removes or changes a transaction recorded
\* earlier, in MemStorage or in LocalStorageService, also when two
\* transactions are recorded in the same millisecond
C23_TransactionLogAppendOnly ==
  [][ /\ \A k \in DOMAIN transactions :
           k \in DOMAIN transactions' /\ transactions'[k] = transactions[k]
      /\ KeepsAll(lsTransactions, lsTransactions') ]_vars

\* LocalStorageService holds two transactions recorded in the same
\* millisecond, and MemStorage one recorded after the sample data
W_C23_SameMillisecond ==
  /\ \E i, j \in 1..Len(lsTransactions) :
       i # j /\ lsTransactions[i].id = lsTransactions[j].id
  /\ DOMAIN transactions # DOMAIN sampleTransactions

\* C24: in a session logged in as the viewer Ali no step issues a store
\* mutation (add, edit, sell, delete, re-price) or starts the price-refresh
\* loop, and a session becomes an admin session only by verifyPassword with
\* the admin password typed
C24_ViewerIsReadOnly ==
  [][ /\ (currentUser # NoUser /\ ~currentUser.isAdmin) => log' = log
      /\ (~currentUser.isAdmin /\ currentUser'.isAdmin) =>
           (showPasswordModal /\ password = "0000") ]_vars

\* the viewer is logged in after an admin session that issued mutations, and
\* the effect of the viewer's dashboard has run
W_C24_ViewerAfterAdmin ==
  /\ currentUser.name = "Ali"
  /\ effectRan
  /\ \E i \in 1..Len(log) : log[i].what = "sellInvestment"

\* the adapter issued a network request
Requested(adapter) == \E i \in 1..Len(kfetches) : kfetches[i].adapter = adapter

\* C25: an adapter whose credential is not configured (Finnhub, Alpha
\* Vantage) issues no network request, its result does not end the
\* resolution, and the resolver goes on to the next adapter
C25_NoCredentialNoRequest ==
  /\ ~apiKey => ~Requested("finnhub")
  /\ ~alphaKey => ~Requested("alpha")
  /\ (~apiKey /\ Len(krets) >= 1) => (~Accepts("finnhub", krets[1]) /\ kpc # "finnhub")
  /\ (~alphaKey /\ Len(krets) >= 2) => krets[2] = Null

\* the Finnhub half of C25 alone
FinnhubWithoutKeyIsSkipped ==
  /\ ~apiKey => ~Requested("finnhub")
  /\ (~apiKey /\ Len(krets) >= 1) =>
       /\ krets[1] = FinnhubZeroQuote(ksym)
       /\ (Len(krets) = 1 => kpc = "alpha")

\* the symbol ends in the suffix, in whatever letter case
HasSuffix(symbol, suffix) == EndsWith(ToUpperCase(symbol), suffix)

\* the suffixes C26 lists
ListedSuffixes ==
  { << ".", "L" >>, << ".", "P", "A" >>, << ".", "M", "I" >>, << ".", "D", "E" >>,
    << ".", "A", "S" >> }

\* the listing is what C26 states for the symbol
ExactListing(symbol, listing) ==
  /\ HasSuffix(symbol, << ".", "L" >>) => listing.currency = "GBP"
  /\ (\E suffix \in ListedSuffixes \ { << ".", "L" >> } : HasSuffix(symbol, suffix))
       => listing.currency = "EUR"
  /\ HasSuffix(symbol, << ".", "M", "I" >>) => listing.exchange = "Borsa Italiana"
  /\ (\A suffix \in ListedSuffixes : ~HasSuffix(symbol, suffix))
       => listing = Listing("USD", "NASDAQ")

\* C26: in both copies of the tables, whatever the letter case, a symbol
\* ending in .L is listed in GBP, one ending in .PA, .MI, .DE or .AS in EUR,
\* one ending in .MI at Borsa Italiana, and every other symbol in USD at the
\* default US exchange
C26_SuffixMappingExact ==
  /\ sfxFinnhub # Null => ExactListing(sfxSymbol, sfxFinnhub)
  /\ sfxResolver # Null => ExactListing(sfxSymbol, sfxResolver)

\* the part of C26 about the five suffixes it lists
ListedSuffixesMapped ==
  \A listing \in { sfxFinnhub, sfxResolver } \ { Null } :
    /\ HasSuffix(sfxSymbol, << ".", "L" >>) => listing.currency = "GBP"
    /\ (\E suffix \in ListedSuffixes \ { << ".", "L" >> } : HasSuffix(sfxSymbol, suffix))
         => listing.currency = "EUR"
    /\ HasSuffix(sfxSymbol, << ".", "M", "I" >>) => listing.exchange = "Borsa Italiana"
    /\ (~Includes(sfxSymbol, << "." >>) \/ HasSuffix(sfxSymbol, << ".", "S", "W" >>))
         => listing = Listing("USD", "NASDAQ")

\* the asset type an answer of either classifier stands for
AssetType(answer) ==
  CASE answer \in { "ETF", "etf" }       -> "etf"
    [] answer \in { "Crypto", "crypto" } -> "crypto"
    [] answer \in { "Bond", "bond" }     -> "bond"
    [] answer \in { "Stock", "stock" }   -> "stock"
    [] OTHER                             -> ""

\* the examples of C27, and one result for each pair of adjacent rules
\* that matches both
ExpectedAssetType(symbol, description, exchange) ==
  CASE symbol = << "V", "W", "C", "E" >> /\ description = << "V", "a", "n", "g", "u", "a", "r", "d", " ", "F", "T", "S", "E", " ", "A", "l", "l", "-", "W", "o", "r", "l", "d", " ", "U", "C", "I", "T", "S", " ", "E", "T", "F" >> -> "etf"
    [] symbol = << "B", "T", "C", "E", "T", "F" >> -> "etf"
    [] symbol = << "B", "T", "C", "-", "U", "S", "D" >> /\ description = << "B", "i", "t", "c", "o", "i", "n" >> -> "crypto"
    [] symbol = << "A", "A", "P", "L" >> /\ description = << "A", "p", "p", "l", "e", " ", "I", "n", "c", "." >>
         /\ exchange = << "N", "A", "S", "D", "A", "Q" >> -> "stock"
    [] symbol = << "I", "T", "0", "0", "0", "5", "4", "2", "2", "8", "9", "1" >> /\ description = << "B", "T", "P", " ", "2", "0", "3", "0" >> -> "bond"
    [] OTHER -> ""

\* the classifier's answer is the expected one, where one is expected
AsExpected(answer) ==
  LET expected == ExpectedAssetType(clsSymbol, clsDescription, clsExchange)
  IN (answer # "" /\ expected # "") => AssetType(answer) = expected

\* C27: both classifiers apply the rules ETF vocabulary, crypto pattern,
\* bond shape, default stock in this order: (VWCE, Vanguard FTSE All-World
\* UCITS ETF) and a symbol with ETF and crypto marks are ETF, (BTC-USD,
\* Bitcoin) is crypto also on an exchange tagged as bond market, (AAPL,
\* Apple Inc.) is stock, and a 12-character government bond code is bond
C27_ClassifierOrder == AsExpected(clsServer) /\ AsExpected(clsClient)

\* the examples C27 shares with the classifier exactness of the spec (ETF,
\* crypto, stock) as categorizeSymbol answers them
ServerClassifiesExamples ==
  (clsServer # "" /\ clsSymbol # << "I", "T", "0", "0", "0", "5", "4", "2", "2", "8", "9", "1" >>) => AsExpected(clsServer)

\* position of the last dot of s, 0 when there is none
LastDot(s) ==
  LET dots == { i \in 1..Len(s) : s[i] = "." }
  IN IF dots = {} THEN 0 ELSE CHOOSE i \in dots : \A j \in dots : j <= i

\* the symbol without its exchange suffix
SuffixStripped(s) == IF LastDot(s) = 0 THEN s ELSE SubSeq(s, 1, LastDot(s) - 1)

\* the variants in the order C28 states: original, suffix-stripped base,
\* and for .L base.LON and base:LN
StatedVariants(symbol) ==
  LET original == ToUpperCase(symbol)
      base == SuffixStripped(original)
  IN IF LastDot(original) = 0 THEN << original >>
     ELSE IF EndsWith(original, << ".", "L" >>)
     THEN << original, base, base \o << ".", "L", "O", "N" >>, base \o << ":", "L", "N" >> >>
     ELSE << original, base >>

\* the response carries a price that is not zero
YieldsNonzeroPrice(out) == out.kind = "json" /\ out.c # Undefined /\ out.c # Num(0)

\* getQuote tried the stated variants in the stated order, went past every
\* variant without a nonzero price, stopped at the first with one, and
\* reported under the uppercased symbol it was called with
TriedAsStated ==
  LET stated == StatedVariants(vsym)
  IN /\ Len(vtried) <= Len(stated)
     /\ \A i \in 1..Len(vtried) : vtried[i] = stated[i]
     /\ \A i \in 1..Len(vouts) : YieldsNonzeroPrice(vouts[i]) => i = Len(vouts)
     /\ vpc = "done" =>
          /\ Len(vouts) = Len(vtried)
          /\ vresult.symbol = ToUpperCase(vsym)
          /\ IF YieldsNonzeroPrice(vouts[Len(vouts)])
             THEN vresult.price = vouts[Len(vouts)].c /\ vresult.error = ""
             ELSE Len(vtried) = Len(stated) /\ vresult.price = Num(0)

\* C28: for every symbol the Finnhub adapter tries original, suffix-stripped
\* base and, for .L, base.LON and base:LN in this order, goes on after a
\* failing variant, stops at the first variant with a nonzero price and
\* reports the quote under the uppercased requested symbol
C28_VariantsInStatedOrder == TriedAsStated

\* C28 for the symbols with at most one dot
OneDotVariantsInStatedOrder ==
  Cardinality({ i \in 1..Len(vsym) : vsym[i] = "." }) <= 1 => TriedAsStated

\* the lookup was rejected
LookupFailed(out) == out.kind = "throw"

\* the symbol is in the list
Lists(list, symbol) == \E i \in 1..Len(list) : list[i].symbol = symbol

\* C29: the merged result has no two entries with the same symbol; each of
\* its entries is the first with its symbol in the merge order, stock
\* lookup before crypto lookup; it has at most 15 entries; and if one lookup
\* failed, every entry of the other lookup is in it, up to the 15
C29_MergedWithoutDuplicates ==
  msPc = "done" =>
    LET stocks == StockEntries(msStock)
        cryptos == searchCrypto(msQuery, msCrypto)
        merged == stocks \o cryptos
    IN /\ \A i, j \in 1..Len(msResult) :
            i # j => msResult[i].symbol # msResult[j].symbol
       /\ \A i \in 1..Len(msResult) :
            \E k \in 1..Len(merged) :
              /\ merged[k] = msResult[i]
              /\ \A j \in 1..(k - 1) : merged[j].symbol # msResult[i].symbol
       /\ Len(msResult) <= 15
       /\ LookupFailed(msStock) =>
            \A k \in 1..Len(cryptos) : Lists(msResult, cryptos[k].symbol)
       /\ LookupFailed(msCrypto) =>
            \/ Len(msResult) = 15
            \/ \A k \in 1..Len(stocks) : Lists(msResult, stocks[k].symbol)

\* the stock lookup listed BTC, the crypto lookup listed it again, and the
\* merged result keeps one BTC
W_C29_DuplicateAcrossLookups ==
  /\ msPc = "done"
  /\ Lists(StockEntries(msStock), << "B", "T", "C" >>)
  /\ Lists(searchCrypto(msQuery, msCrypto), << "B", "T", "C" >>)
  /\ Len(msResult) > 1

\* the adapter calls of resolution r that have not returned
InFlight(r) == Len(calls[r]) - Len(rets[r])

\* the adapter completed without a usable quote
CompletedWithFailure(adapter, q) ==
  IF adapter = "finnhub" THEN q = Null \/ ~GT0(q.price) ELSE q = Null

\* C30: within one resolution at most one adapter call is in flight, the one
\* getQuote awaits, and every adapter called before it has completed with a
\* failure
C30_AdaptersOneAtATime ==
  \A r \in Requests :
    /\ InFlight(r) \in {0, 1}
    /\ InFlight(r) = 1 => pc[r] = calls[r][Len(calls[r])]
    /\ \A k \in 1..Len(calls[r]) :
         k < Len(calls[r]) =>
           /\ k <= Len(rets[r])
           /\ CompletedWithFailure(calls[r][k], rets[r][k])

\* Yahoo Finance is in flight after Finnhub and Alpha Vantage have failed,
\* while another resolution has its own adapter call in flight
W_C30_ThirdAdapterInFlight ==
  \E r, o \in Requests :
    /\ r # o
    /\ calls[r] = << "finnhub", "alpha", "yahoo" >>
    /\ Len(rets[r]) = 2
    /\ InFlight(o) = 1

\* the symbol's own resolution succeeded: it yielded a quote with a price > 0
ResolutionSucceeded(q) == q # Null /\ q.price > 0

\* the positions of the batch whose resolution succeeded
SucceededPositions == { i \in 1..Len(btQuotes) : ResolutionSucceeded(btQuotes[i]) }

\* the positions of the batch whose getQuote resolved to a quote
QuotedPositions == { i \in 1..Len(btQuotes) : btQuotes[i] # Null }

\* the batch result holds exactly the quotes of the positions in S, in the
\* order of the symbols argument
ResultIsExactly(S) ==
  /\ Len(btResult) = Cardinality(S)
  /\ \A k \in 1..Len(btResult) :
       \E i \in S :
         /\ btResult[k] = btQuotes[i]
         /\ k = Cardinality({ j \in S : j <= i })

\* the Map holds exactly the symbols of the positions in S, each with the
\* price of one of its own resolutions
PricesAreExactly(S) ==
  /\ DOMAIN btPrices = { btSymbols[i] : i \in S }
  /\ \A s \in DOMAIN btPrices :
       \E i \in S : btSymbols[i] = s /\ btPrices[s] = btQuotes[i].price

\* C31: a batch always completes, and its result contains exactly the quotes
\* of the symbols whose own resolution succeeded, whatever became of the
\* other symbols
C31_BatchIsTheSucceeded ==
  btPc = "done" =>
    /\ btFn = "getMultipleQuotes" => ResultIsExactly(SucceededPositions)
    /\ btFn = "batchUpdatePrices" => PricesAreExactly(SucceededPositions)

\* what holds: every batch that has been started with symbols settles into
\* done with the last of its requests, whatever their outcomes;
\* batchUpdatePrices returns exactly the prices of the succeeded symbols; and
\* getMultipleQuotes returns exactly the non-null quotes, each symbol's quote
\* determined by its own request alone
BatchFailureIsolated ==
  /\ btPc = "pending" <=> (btFn # "none" /\ ~AllSettled(btOuts))
  /\ btPc = "done" =>
       /\ btFn = "getMultipleQuotes" =>
            /\ ResultIsExactly(QuotedPositions)
            /\ \A i \in 1..Len(btSymbols) :
                 btQuotes[i] = BatchGetQuote(btSymbols[i], btOuts[i])
       /\ btFn = "batchUpdatePrices" => PricesAreExactly(SucceededPositions)

\* C32: a quote request with an empty symbol and a search request with an
\* empty query are answered 400 with no body, the prober never called, no
\* adapter invoked and the offline source not read; and no request that is
\* awaiting the prober or an adapter carries the empty symbol or query
C32_MalformedRejectedFirst ==
  /\ (sent.how # "none" /\ sent.sym = EmptySymbol) =>
       /\ sent.status = 400
       /\ sent.how = "badreq"
       /\ sent.probes = 0
       /\ sent.online = "?"
       /\ sent.calls = << >>
       /\ sent.body = NoBody
  /\ \A r \in Requests : pc[r] # "idle" => sym[r] # EmptySymbol
  /\ (searchSent.status # 0 /\ searchSent.query = << >>) =>
       /\ searchSent.status = 400
       /\ searchSent.online = "?"
       /\ ~searchSent.called
       /\ searchSent.body = << >>
  /\ searchPc # "idle" => searchQuery # << >>

\* both routes have answered a malformed request with 400, the search route
\* on its second request
W_C32_BothRoutesRejected ==
  /\ sent.sym = EmptySymbol
  /\ sent.status = 400
  /\ searchSent.query = << >>
  /\ searchSent.status = 400
  /\ searched = 2

\* sellInvestment rejects the call: the id is unknown or more is sold than
\* is owned
SellRejected(id, quantity) ==
  \/ id \notin DOMAIN investments
  \/ quantity > investments[id].quantity

\* the quantity the investment id owns, 1 if there is none
Owned(id) == IF id \in DOMAIN investments THEN investments[id].quantity ELSE 1

\* the step is one of the sell route, which alone answers under these names
AnsweredBySellRoute == storeLast'.op \in { "sell", "sell: thrown" }

\* C33: a sell for an unknown id or of more than the owned quantity is
\* answered with an error, and the investments and the transaction log are
\* what they were before the call
C33_RejectedSellChangesNothing ==
  [][ AnsweredBySellRoute =>
        \A id \in ParamIds, price \in BodyPrices :
          \A quantity \in SellQuantities(Owned(id)) :
            (SellInvestment(id, quantity, price) /\ SellRejected(id, quantity)) =>
              /\ storeLast'.status = 400
              /\ investments' = investments
              /\ transactions' = transactions ]_vars

\* sellInvestment has thrown for an investment that an earlier sell of the
\* whole holding had removed
W_C33_SellOfSoldInvestment ==
  /\ storeLast = StoreAnswer("sell: thrown", 400)
  /\ 1 \notin DOMAIN investments
  /\ \E k \in DOMAIN transactions :
       transactions[k].type = "sell" /\ transactions[k].assetSymbol = "AAPL"

\* the transactions the step has added to MemStorage
AddedTransactions == { k \in DOMAIN transactions' : k \notin DOMAIN transactions }

\* the step has left every transaction recorded before as it was
EarlierTransactionsKept ==
  \A k \in DOMAIN transactions :
    k \in DOMAIN transactions' /\ transactions'[k] = transactions[k]

\* the step has left every investment but id as it was
OtherInvestmentsKept(id) ==
  /\ DOMAIN investments' \cup { id } = DOMAIN investments
  /\ \A k \in DOMAIN investments' : k # id => investments'[k] = investments[k]

\* C34: a sell of quantity q at price p that is answered with success adds
\* exactly one transaction, of type sell with total q * p; the investment is
\* removed if q is its whole quantity, and else has its quantity lowered by
\* q and every other field as before; no other investment changes
C34_SuccessfulSell ==
  [][ (AnsweredBySellRoute /\ storeLast'.status = 200) =>
      \A id \in ParamIds, price \in BodyPrices :
        \A quantity \in SellQuantities(Owned(id)) :
          SellInvestment(id, quantity, price) =>
            /\ Cardinality(AddedTransactions) = 1
            /\ EarlierTransactionsKept
            /\ \A k \in AddedTransactions :
                 /\ transactions'[k].type = "sell"
                 /\ transactions'[k].quantity = quantity
                 /\ transactions'[k].price = price
                 /\ transactions'[k].total = quantity * price
                 /\ transactions'[k].assetSymbol = investments[id].symbol
            /\ OtherInvestmentsKept(id)
            /\ IF quantity = investments[id].quantity
               THEN id \notin DOMAIN investments'
               ELSE /\ id \in DOMAIN investments'
                    /\ investments'[id] =
                         [investments[id] EXCEPT !.quantity = @ - quantity] ]_vars

\* the AAPL holding of 25 units has been sold in two sales, half a unit and
\* then the rest, and is gone
W_C34_PartialThenWhole ==
  /\ storeLast = StoreAnswer("sell", 200)
  /\ 1 \notin DOMAIN investments
  /\ \E k, l \in DOMAIN transactions :
       /\ transactions[k].type = "sell" /\ transactions[k].quantity = 1
       /\ transactions[l].type = "sell" /\ transactions[l].quantity = 49

\* the record is a price_update of the symbol that carries the price
IsPriceUpdate(t, symbol, price) ==
  t.type = "price_update" /\ t.assetSymbol = symbol /\ t.price = price

\* C35: updateInvestmentPrice, of MemStorage and of LocalStorageService, for
\* an unknown id leaves investments and transactions as they were, and for a
\* known id changes the currentPrice of that investment and nothing else and
\* adds exactly one price_update transaction that carries the new price
C35_PriceUpdateFrame ==
  [][ /\ \A id \in ParamIds, price \in BodyPrices :
           (UpdateInvestmentPrice(id, price) /\ price # 0) =>
             IF id \notin DOMAIN investments
             THEN /\ investments' = investments
                  /\ transactions' = transactions
                  /\ storeLast'.status = 404
             ELSE /\ DOMAIN investments' = DOMAIN investments
                  /\ OtherInvestmentsKept(id)
                  /\ investments'[id] = [investments[id] EXCEPT !.currentPrice = price]
                  /\ EarlierTransactionsKept
                  /\ Cardinality(AddedTransactions) = 1
                  /\ \A k \in AddedTransactions :
                       IsPriceUpdate(transactions'[k], investments[id].symbol, price)
      /\ \A id \in LocalIds, price \in BodyPrices :
           LocalUpdateInvestmentPrice(id, price) =>
             IF \A i \in 1..Len(lsInvestments) : lsInvestments[i].id # id
             THEN /\ lsInvestments' = lsInvestments
                  /\ lsTransactions' = lsTransactions
             ELSE /\ \E i \in 1..Len(lsInvestments) :
                       /\ lsInvestments[i].id = id
                       /\ lsInvestments' =
                            [lsInvestments EXCEPT ![i] = [@ EXCEPT !.currentPrice = price]]
                       /\ Len(lsTransactions') = Len(lsTransactions) + 1
                       /\ KeepsAll(lsTransactions, lsTransactions')
                       /\ IsPriceUpdate(lsTransactions'[1], lsInvestments[i].symbol, price) ]_vars

\* both stores have re-priced an investment and recorded it
W_C35_BothStoresRepriced ==
  /\ 1 \in DOMAIN investments
  /\ investments[1].currentPrice = 2000
  /\ \E k \in DOMAIN transactions : IsPriceUpdate(transactions[k], "AAPL", 2000)
  /\ Len(lsInvestments) = 1
  /\ lsInvestments[1].currentPrice = 2000
  /\ Len(lsTransactions) > 0
  /\ IsPriceUpdate(lsTransactions[1], "MSFT", 2000)

\* the quotes the cache holds
CachedQuotes == { cache[k].data : k \in { key \in DOMAIN cache : cache[key] # NoEntry } }

\* C36: every quote in the cache came from one of the three adapters and
\* has a numeric price > 0
C36_CacheHoldsLivePositive ==
  \A q \in CachedQuotes :
    /\ q.origin \in { "finnhub", "alpha", "yahoo" }
    /\ GT0(q.price)

\* what holds: the cache never holds the placeholder or an offline quote,
\* every cached quote carries its adapter's tag, and a cached Finnhub quote
\* has a numeric price > 0
CacheHoldsAdapterQuotes ==
  \A q \in CachedQuotes :
    /\ q.origin \in { "finnhub", "alpha", "yahoo" }
    /\ q.provider = ProviderTag(q.origin)
    /\ q.origin = "finnhub" => GT0(q.price)

\* the setInterval timers of PriceService that are pending: its one handle
\* is set only when it is null
PendingIntervals == IF psUpdateInterval THEN 1 ELSE 0

\* C37: at most one refresh timer is pending per price service, after every
\* sequence of start, stop, timer firing and batch completion
C37_AtMostOneTimerPending ==
  /\ Cardinality(timers) <= 1
  /\ PendingIntervals <= 1

\* what holds: a startPriceUpdates that finds the loop running creates no
\* timer, and a step that changes the pending timers while no batch is in
\* flight leaves at most one pending
StartWhileRunningAddsNoTimer ==
  [][ /\ (isRunning /\ starting' # starting) => (timers' = timers /\ created' = created)
      /\ (timers' # timers /\ inFlight = 0) => Cardinality(timers') <= 1 ]_vars

\* the two copies of the tables give the symbol the same currency and the
\* same exchange
TableCopiesAgree ==
  (sfxFinnhub # Null /\ sfxResolver # Null) => sfxFinnhub = sfxResolver

\* C38: both copies of the tables give every symbol the same currency and
\* exchange, and neither gives a symbol a currency other than USD together
\* with the default US exchange
C38_CopiesAgreeAndCohere ==
  /\ TableCopiesAgree
  /\ \A listing \in { sfxFinnhub, sfxResolver } \ { Null } :
       listing.currency # "USD" => listing.exchange # "NASDAQ"

====
